---- MODULE Spec2Model ----
(***************************************************************************)
(* A model of the object-store-server's versioned storage engine           *)
(* (adapters/outbound/storage/versioning.rs), its lifecycle manager        *)
(* (adapters/outbound/storage/lifecycle.rs) and the service layer built on *)
(* the object repository (services/*.rs, adapters/outbound/persistence),   *)
(* together with the lifecycle rules of the domain (domain/models), their  *)
(* validation and evaluation, and the lifecycle service                    *)
(* (services/lifecycle_service_impl.rs).                                   *)
(*                                                                         *)
(* Paths, keys and version ids are sequences of tokens, so that the        *)
(* format!() calls which derive physical locations are modelled as the     *)
(* concatenations they are.  Every `.await` on the backing store is one    *)
(* step of the calling task and may fail; the steps between two awaits     *)
(* that take a lock are separate steps (acquire, then mutate and release). *)
(***************************************************************************)
EXTENDS Integers, Sequences, FiniteSets, TLC

VARIABLES
    store,               \* the backing object store: path -> bytes
    versions,            \* VersionedStore.versions: path -> Seq(VersionMetadata)
    versioning_enabled,  \* VersionedStore.versioning_enabled
    vlockW,              \* writer holding the RwLock around `versions` (0: none)
    vlockR,              \* readers holding the RwLock around `versions`
    nextUuid,            \* how many Uuid::new_v4() values were drawn
    clock,               \* the wall clock read by Utc::now()
    pc,                  \* task -> the await / statement it is at
    op,                  \* task -> the call it is executing and its locals
    res,                 \* task -> the outcome of its last completed call
    minted,              \* history: for each uuid drawn, the call that drew it
    failures,            \* history: how many backing-store calls failed
    calls,               \* history: how many calls were made
    onlyPuts,            \* history: every call so far was a versioned put that returned Ok
    running,             \* LifecycleManager.running
    configs,             \* LifecycleManager.configs: bucket -> LifecycleConfiguration
    cfgLockW,            \* holder of the write guard of the RwLock around `configs` (<<>>: none)
    cfgLockR,            \* holders of read guards of the RwLock around `configs`
    wpc,                 \* spawned worker -> where its loop is
    wsnap,               \* spawned worker -> what is left of its config_snapshot
    mpc,                 \* task -> where its LifecycleManager call is
    mop,                 \* task -> the arguments of that call
    mres,                \* task -> the outcome of its last LifecycleManager call
    mcalls,              \* history: how many LifecycleManager calls were made
    objstore,            \* the object store behind the adapters: path -> bytes
    objects,             \* RepositoryData.objects: key -> version id -> StoredVersion
    latest_versions,     \* RepositoryData.latest_versions: key -> version id
    sclock,              \* the system clock the services read
    spc,                 \* task -> where its service call is
    sop,                 \* task -> the request of that call
    sres,                \* task -> the outcome of its last service call
    scalls,              \* history: how many service calls were made
    sfailures,           \* history: how many calls of the object store failed
    fin,                 \* the argument a function is applied to
    fout,                \* what the function returned
    fdone,               \* which function was applied ("": none yet)
    configurations,      \* InMemoryLifecycleRepository: bucket -> LifecycleConfiguration
    processing_status,   \* LifecycleServiceImpl.processing_status: bucket -> ProcessingStatus
    lc_store,            \* the object store of the lifecycle service: key -> last_modified
    lnow,                \* the instant SystemTime::now() returns to the lifecycle service
    lpc,                 \* where the process_bucket_lifecycle call in flight is
    lrun,                \* the locals of that call
    lres,                \* the outcome of the last completed lifecycle service call
    lcalls,              \* history: how many lifecycle service calls were made
    lfailures,           \* history: how many store or repository calls failed
    rpc,                 \* task -> where its rule management call is
    rop,                 \* task -> the arguments and locals of that call
    rres,                \* task -> the outcome of its last rule management call
    rcalls,              \* history: how many rule management calls were made
    versioning_configs,  \* VersioningServiceImpl.versioning_configs: bucket -> VersioningConfiguration
    vcres                \* the outcome of the last versioning configuration call

vsVars == <<store, versions, versioning_enabled, vlockW, vlockR, nextUuid, clock,
            pc, op, res, minted, failures, calls, onlyPuts>>

schedVars == <<running, configs, cfgLockW, cfgLockR, wpc, wsnap, mpc, mop, mres, mcalls>>

svcVars == <<objstore, objects, latest_versions, sclock, spc, sop, sres, scalls, sfailures>>

funVars == <<fin, fout, fdone>>

lcVars == <<configurations, processing_status, lc_store, lnow, lpc, lrun, lres, lcalls,
            lfailures>>

ruleVars == <<rpc, rop, rres, rcalls>>

vcVars == <<versioning_configs, vcres>>

vars == <<vsVars, schedVars, svcVars, funVars, lcVars, ruleVars, vcVars>>

notVS == <<schedVars, svcVars, funVars, lcVars, ruleVars, vcVars>>
notSched == <<vsVars, svcVars, funVars, lcVars, ruleVars, vcVars>>
notSvc == <<vsVars, schedVars, funVars, lcVars, ruleVars, vcVars>>
notFun == <<vsVars, schedVars, svcVars, lcVars, ruleVars, vcVars>>
notLc == <<vsVars, schedVars, svcVars, funVars, ruleVars, vcVars>>
notRules == <<vsVars, schedVars, svcVars, funVars, vcVars>>
notVc == <<vsVars, schedVars, svcVars, funVars, lcVars, ruleVars>>

---------------------------------------------------------------------------
(* Bounds of the exploration *)

MaxUuid == 3
MaxClock == 1
MaxFailures == 1
MaxCalls == 3
MaxConcurrentCalls == 2
MaxWorkers == 2
MaxManagerCalls == 4
MaxSvcClock == 1
MaxSvcCalls == 3

Tasks == {1, 2}
BaseKeys == {<<"a">>, <<"b">>}
CollisionBase == {<<"a">>}
Data == {"d1", "d2"}
UuidName == <<"u1", "u2", "u3", "u4", "u5">>
UnknownVersion == <<"zz">>
TickName == <<"t0", "t1", "t2", "t3", "t4">>

---------------------------------------------------------------------------
(* The backing object store (the `inner` ObjectStore of VersionedStore) *)

StorePut(s, p, d) == [q \in (DOMAIN s) \cup {p} |-> IF q = p THEN d ELSE s[q]]

StoreDelete(s, p) == [q \in (DOMAIN s) \ {p} |-> s[q]]

Uuid(i) == <<UuidName[i]>>

MintedVersions == {Uuid(i) : i \in 1..(nextUuid - 1)}

(* format!("{}.v_{}", path_str, version_id) *)
versioned_path(path, version_id) == path \o <<".v_">> \o version_id

VersionIds(k) ==
    IF k \in DOMAIN versions
    THEN [i \in 1..Len(versions[k]) |-> versions[k][i].version_id]
    ELSE <<>>

SeqRange(s) == {s[i] : i \in 1..Len(s)}

(* The keys a client calls the store with: plain keys, and keys spelled    *)
(* like the versioned location of a version it has seen in a listing.      *)
ClientKeys ==
    BaseKeys \cup
    UNION {{versioned_path(k, v) : v \in SeqRange(VersionIds(k))} : k \in CollisionBase}

ClientVersions == MintedVersions \cup {UnknownVersion}

---------------------------------------------------------------------------
(* Task bookkeeping *)

(* `pre` is the history map and the backing store as the call found them *)
NoPre == [versions |-> <<>>, store |-> <<>>]

IdleOp == [name |-> "idle", key |-> <<>>, key2 |-> <<>>, data |-> "", vid |-> <<>>,
           pre |-> NoPre]

NoRes == [name |-> "none", key |-> <<>>, key2 |-> <<>>, vid |-> <<>>, ok |-> FALSE,
          err |-> "", bytes |-> "", list |-> <<>>, was_latest |-> FALSE, pre_len |-> 0,
          pre |-> NoPre]

AllIdle == \A t \in Tasks : pc[t] = "idle"

Call(t, o, at) ==
    /\ pc[t] = "idle"
    /\ calls < MaxCalls
    /\ calls' = calls + 1
    /\ pc' = [pc EXCEPT ![t] = at]
    /\ op' = [op EXCEPT ![t] = [o EXCEPT !.pre = [versions |-> versions, store |-> store]]]
    /\ res' = [res EXCEPT ![t] = NoRes]

Goto(t, at) ==
    /\ pc' = [pc EXCEPT ![t] = at]
    /\ UNCHANGED <<op, res, calls>>

Return(t, r) ==
    /\ UNCHANGED calls
    /\ pc' = [pc EXCEPT ![t] = "idle"]
    /\ op' = [op EXCEPT ![t] = IdleOp]
    /\ res' = [res EXCEPT ![t] = r]

ResOf(t) == [NoRes EXCEPT !.name = op[t].name, !.key = op[t].key, !.key2 = op[t].key2,
                          !.vid = op[t].vid, !.pre = op[t].pre]

OkRes(t) == [ResOf(t) EXCEPT !.ok = TRUE]

ErrRes(t, kind) == [ResOf(t) EXCEPT !.err = kind]

(* Utc::now(): the clock may have advanced since it was last read. *)
ReadClock(t1) == t1 \in {clock, IF clock < MaxClock THEN clock + 1 ELSE clock}

---------------------------------------------------------------------------
(* VersionedStore: reads *)

(* ObjectStore::get: always the original path *)
VsGet(k) ==
    IF k \in DOMAIN store
    THEN [ok |-> TRUE, err |-> "", bytes |-> store[k]]
    ELSE [ok |-> FALSE, err |-> "ObjectStore.NotFound", bytes |-> ""]

(* VersionedStore::get_version: inner.get(versioned_path)?, the store's error as it is *)
VsGetVersion(k, v) == VsGet(versioned_path(k, v))

(* VersionedStore::list_versions: the cloned list, or an empty one *)
VsListVersions(k) == IF k \in DOMAIN versions THEN versions[k] ELSE <<>>

---------------------------------------------------------------------------
(* A call of the backing store that fails: it changes nothing and the      *)
(* caller's `?` returns the error.                                         *)

StoreFails(t, kind) ==
    /\ failures < MaxFailures
    /\ failures' = failures + 1
    /\ Return(t, ErrRes(t, kind))
    /\ onlyPuts' = FALSE
    /\ UNCHANGED store

---------------------------------------------------------------------------
(* VersionedStore::add_version_metadata, called by put and copy *)

AddVersionMetadataLock(t) ==
    /\ pc[t] = "meta_lock"
    /\ vlockW = 0 /\ vlockR = {}
    /\ vlockW' = t
    /\ Goto(t, "meta_push")
    /\ UNCHANGED <<store, versions, versioning_enabled, vlockR, nextUuid, clock,
                   minted, failures, onlyPuts>>

PushVersionFront(vs, k, v, now) ==
    LET entry == [version_id |-> v, created_at |-> now]
        old == IF k \in DOMAIN vs THEN vs[k] ELSE <<>>
    IN [q \in (DOMAIN vs) \cup {k} |-> IF q = k THEN <<entry>> \o old ELSE vs[q]]

PushVersion(vs, k, v, now) ==
    LET entry == [version_id |-> v, created_at |-> now]
        old == IF k \in DOMAIN vs THEN vs[k] ELSE <<>>
    IN [q \in (DOMAIN vs) \cup {k} |-> IF q = k THEN Append(old, entry) ELSE vs[q]]

AfterMetadata(t) == IF op[t].name = "put" THEN "put_primary" ELSE "copy_primary"

KeepWrite(t) == vlockW' = vlockW

ReleaseWrite(t) == vlockW' = 0

AddVersionMetadataPush(t) ==
    /\ pc[t] = "meta_push"
    /\ vlockW = t
    /\ \E now \in 0..MaxClock :
          /\ ReadClock(now)
          /\ clock' = now
          /\ versions' = PushVersion(versions, op[t].key, op[t].vid, now)
    /\ ReleaseWrite(t)
    /\ Goto(t, AfterMetadata(t))
    /\ UNCHANGED <<store, versioning_enabled, vlockR, nextUuid, minted, failures, onlyPuts>>

---------------------------------------------------------------------------
(* ObjectStore::put for VersionedStore *)

PutStart(t, k, d) ==
    /\ versioning_enabled
    /\ nextUuid <= MaxUuid
    /\ Call(t, [IdleOp EXCEPT !.name = "put", !.key = k, !.data = d, !.vid = Uuid(nextUuid)],
            "put_versioned")
    /\ nextUuid' = nextUuid + 1
    /\ minted' = Append(minted, [name |-> "put", key |-> k, data |-> d])
    /\ UNCHANGED <<store, versions, versioning_enabled, vlockW, vlockR, clock,
                   failures, onlyPuts>>

PutVersioned(t) ==
    /\ pc[t] = "put_versioned"
    /\ \/ /\ store' = StorePut(store, versioned_path(op[t].key, op[t].vid), op[t].data)
          /\ Goto(t, "meta_lock")
          /\ UNCHANGED <<failures, onlyPuts>>
       \/ StoreFails(t, "ObjectStore")
    /\ UNCHANGED <<versions, versioning_enabled, vlockW, vlockR, nextUuid, clock, minted>>

PutPrimary(t) ==
    /\ pc[t] = "put_primary"
    /\ \/ /\ store' = StorePut(store, op[t].key, op[t].data)
          /\ Return(t, OkRes(t))
          /\ UNCHANGED <<failures, onlyPuts>>
       \/ StoreFails(t, "ObjectStore")
    /\ UNCHANGED <<versions, versioning_enabled, vlockW, vlockR, nextUuid, clock, minted>>

(* versioning disabled: pass through *)
PutPlainStart(t, k, d) ==
    /\ ~versioning_enabled
    /\ Call(t, [IdleOp EXCEPT !.name = "put", !.key = k, !.data = d], "put_plain")
    /\ onlyPuts' = FALSE
    /\ UNCHANGED <<store, versions, versioning_enabled, vlockW, vlockR, nextUuid, clock,
                   minted, failures>>

PutPlain(t) ==
    /\ pc[t] = "put_plain"
    /\ \/ /\ store' = StorePut(store, op[t].key, op[t].data)
          /\ Return(t, OkRes(t))
          /\ UNCHANGED <<failures, onlyPuts>>
       \/ StoreFails(t, "ObjectStore")
    /\ UNCHANGED <<versions, versioning_enabled, vlockW, vlockR, nextUuid, clock, minted>>

---------------------------------------------------------------------------
(* ObjectStore::delete for VersionedStore *)

DeleteStart(t, k) ==
    /\ Call(t, [IdleOp EXCEPT !.name = "delete", !.key = k],
            IF versioning_enabled THEN "delete_primary" ELSE "delete_plain")
    /\ onlyPuts' = FALSE
    /\ UNCHANGED <<store, versions, versioning_enabled, vlockW, vlockR, nextUuid, clock,
                   minted, failures>>

DeletePrimary(t) ==
    /\ pc[t] = "delete_primary"
    /\ \/ /\ store' = StoreDelete(store, op[t].key)
          /\ Goto(t, "delete_lock")
          /\ UNCHANGED <<failures, onlyPuts>>
       \/ StoreFails(t, "ObjectStore")
    /\ UNCHANGED <<versions, versioning_enabled, vlockW, vlockR, nextUuid, clock, minted>>

DeleteLock(t) ==
    /\ pc[t] = "delete_lock"
    /\ vlockW = 0
    /\ vlockR' = vlockR \cup {t}
    /\ Goto(t, "delete_check")
    /\ UNCHANGED <<store, versions, versioning_enabled, vlockW, nextUuid, clock,
                   minted, failures, onlyPuts>>

ReleaseRead(t) == vlockR' = vlockR \ {t}

(* the variant drops the history of the key *)
DeleteCheckDropHistory(t) ==
    /\ pc[t] = "delete_check"
    /\ t \in vlockR
    /\ ReleaseRead(t)
    /\ Return(t, OkRes(t))
    /\ versions' = [k \in (DOMAIN versions) \ {op[t].key} |-> versions[k]]
    /\ UNCHANGED <<store, versioning_enabled, vlockW, nextUuid, clock,
                   minted, failures, onlyPuts>>

(* contains_key is looked at and nothing is done; the guard drops at the return *)
DeleteCheck(t) ==
    /\ pc[t] = "delete_check"
    /\ t \in vlockR
    /\ ReleaseRead(t)
    /\ Return(t, OkRes(t))
    /\ UNCHANGED <<store, versions, versioning_enabled, vlockW, nextUuid, clock,
                   minted, failures, onlyPuts>>

DeletePlain(t) ==
    /\ pc[t] = "delete_plain"
    /\ \/ /\ store' = StoreDelete(store, op[t].key)
          /\ Return(t, OkRes(t))
          /\ UNCHANGED <<failures, onlyPuts>>
       \/ StoreFails(t, "ObjectStore")
    /\ UNCHANGED <<versions, versioning_enabled, vlockW, vlockR, nextUuid, clock, minted>>

---------------------------------------------------------------------------
(* VersionedStore::delete_version *)

DeleteVersionStart(t, k, v) ==
    /\ Call(t, [IdleOp EXCEPT !.name = "delete_version", !.key = k, !.vid = v], "dv_delete")
    /\ onlyPuts' = FALSE
    /\ UNCHANGED <<store, versions, versioning_enabled, vlockW, vlockR, nextUuid, clock,
                   minted, failures>>

DeleteVersionStore(t) ==
    /\ pc[t] = "dv_delete"
    /\ \/ /\ store' = StoreDelete(store, versioned_path(op[t].key, op[t].vid))
          /\ Goto(t, "dv_lock")
          /\ UNCHANGED <<failures, onlyPuts>>
       \/ StoreFails(t, "ObjectStore")
    /\ UNCHANGED <<versions, versioning_enabled, vlockW, vlockR, nextUuid, clock, minted>>

DeleteVersionLock(t) ==
    /\ pc[t] = "dv_lock"
    /\ vlockW = 0 /\ vlockR = {}
    /\ vlockW' = t
    /\ Goto(t, "dv_retain")
    /\ UNCHANGED <<store, versions, versioning_enabled, vlockR, nextUuid, clock,
                   minted, failures, onlyPuts>>

(* the variant retains the versions older than the first one it removes *)
RetainVersionsBefore(vs, k, v) ==
    IF k \notin DOMAIN vs THEN vs
    ELSE LET Before(i) == \A j \in 1..i : vs[k][j].version_id # v
             kept == [i \in 1..Cardinality({i \in 1..Len(vs[k]) : Before(i)}) |-> vs[k][i]]
         IN IF kept = <<>>
            THEN [q \in (DOMAIN vs) \ {k} |-> vs[q]]
            ELSE [vs EXCEPT ![k] = kept]

(* version_list.retain(|v| v.version_id != version_id); remove the entry when empty *)
RetainVersions(vs, k, v) ==
    IF k \notin DOMAIN vs THEN vs
    ELSE LET Keep(e) == e.version_id # v
             kept == SelectSeq(vs[k], Keep)
         IN IF kept = <<>>
            THEN [q \in (DOMAIN vs) \ {k} |-> vs[q]]
            ELSE [vs EXCEPT ![k] = kept]

DeleteVersionRetain(t) ==
    /\ pc[t] = "dv_retain"
    /\ vlockW = t
    /\ versions' = RetainVersions(versions, op[t].key, op[t].vid)
    /\ ReleaseWrite(t)
    /\ LET ids == VersionIds(op[t].key) IN
       Return(t, [OkRes(t) EXCEPT !.pre_len = Len(ids),
                                  !.was_latest = (ids # <<>> /\ ids[Len(ids)] = op[t].vid)])
    /\ UNCHANGED <<store, versioning_enabled, vlockR, nextUuid, clock, minted, failures,
                   onlyPuts>>

---------------------------------------------------------------------------
(* ObjectStore::copy for VersionedStore *)

CopyStart(t, from, to) ==
    /\ versioning_enabled
    /\ nextUuid <= MaxUuid
    /\ Call(t, [IdleOp EXCEPT !.name = "copy", !.key = to, !.key2 = from,
                              !.vid = Uuid(nextUuid)], "copy_get")
    /\ nextUuid' = nextUuid + 1
    /\ minted' = Append(minted, [name |-> "copy", key |-> to, data |-> ""])
    /\ onlyPuts' = FALSE
    /\ UNCHANGED <<store, versions, versioning_enabled, vlockW, vlockR, clock, failures>>

(* inner.get(from): NotFound when there is no such object *)
CopyGet(t) ==
    /\ pc[t] = "copy_get"
    /\ \/ /\ op[t].key2 \in DOMAIN store
          /\ op' = [op EXCEPT ![t].data = store[op[t].key2]]
          /\ pc' = [pc EXCEPT ![t] = "copy_versioned"]
          /\ UNCHANGED <<res, calls, failures, onlyPuts, store>>
       \/ /\ op[t].key2 \notin DOMAIN store
          /\ Return(t, ErrRes(t, "ObjectStore.NotFound"))
          /\ UNCHANGED <<failures, onlyPuts, store>>
       \/ StoreFails(t, "ObjectStore")
    /\ UNCHANGED <<versions, versioning_enabled, vlockW, vlockR, nextUuid, clock, minted>>

CopyVersioned(t) ==
    /\ pc[t] = "copy_versioned"
    /\ \/ /\ store' = StorePut(store, versioned_path(op[t].key, op[t].vid), op[t].data)
          /\ Goto(t, "meta_lock")
          /\ UNCHANGED <<failures, onlyPuts>>
       \/ StoreFails(t, "ObjectStore")
    /\ UNCHANGED <<versions, versioning_enabled, vlockW, vlockR, nextUuid, clock, minted>>

(* self.inner.copy(from, to) *)
CopyPrimary(t) ==
    /\ pc[t] \in {"copy_primary", "copy_plain"}
    /\ \/ /\ op[t].key2 \in DOMAIN store
          /\ store' = StorePut(store, op[t].key, store[op[t].key2])
          /\ Return(t, OkRes(t))
          /\ UNCHANGED <<failures, onlyPuts>>
       \/ /\ op[t].key2 \notin DOMAIN store
          /\ Return(t, ErrRes(t, "ObjectStore.NotFound"))
          /\ UNCHANGED <<failures, onlyPuts, store>>
       \/ StoreFails(t, "ObjectStore")
    /\ UNCHANGED <<versions, versioning_enabled, vlockW, vlockR, nextUuid, clock, minted>>

CopyPlainStart(t, from, to) ==
    /\ ~versioning_enabled
    /\ Call(t, [IdleOp EXCEPT !.name = "copy", !.key = to, !.key2 = from], "copy_plain")
    /\ onlyPuts' = FALSE
    /\ UNCHANGED <<store, versions, versioning_enabled, vlockW, vlockR, nextUuid, clock,
                   minted, failures>>

---------------------------------------------------------------------------
(* LifecycleConfiguration (adapters/outbound/storage/lifecycle.rs).        *)
(* An Option is a sequence of length 0 (None) or 1 (Some).                 *)

None == <<>>
Some(x) == <<x>>
IsNone(o) == o = <<>>
IsSome(o) == o # <<>>

Buckets == {"b1", "b2"}

ExpireIn30 == [id |-> "r1", prefix |-> "logs/", status |-> "Enabled",
               expiration |-> Some([days |-> Some(30), date |-> None]),
               transitions |-> None]

TransitionOnly == [id |-> "r2", prefix |-> "tmp/", status |-> "Disabled",
                   expiration |-> None,
                   transitions |-> Some(<<[days |-> None, date |-> Some(1),
                                           storage_class |-> "GLACIER"]>>)]

NoAction == [id |-> "r3", prefix |-> "", status |-> "Enabled",
             expiration |-> None, transitions |-> None]

ExpirationWithoutTime == [id |-> "r4", prefix |-> "", status |-> "Enabled",
                          expiration |-> Some([days |-> None, date |-> None]),
                          transitions |-> None]

ConfigChoices == {[rules |-> <<ExpireIn30>>],
                  [rules |-> <<ExpireIn30, TransitionOnly>>],
                  [rules |-> <<ExpireIn30, NoAction>>],
                  [rules |-> <<ExpirationWithoutTime>>]}

(* the checks LifecycleConfiguration::validate makes of one rule *)
RuleIsValid(rule) ==
    /\ ~(IsNone(rule.expiration) /\ IsNone(rule.transitions))
    /\ IsSome(rule.expiration) =>
          ~(IsNone(rule.expiration[1].days) /\ IsNone(rule.expiration[1].date))
    /\ IsSome(rule.transitions) =>
          \A i \in 1..Len(rule.transitions[1]) :
              ~(IsNone(rule.transitions[1][i].days) /\ IsNone(rule.transitions[1][i].date))

(* LifecycleConfiguration::validate: Ok(()) iff no rule is refused *)
validate(config) == \A i \in 1..Len(config.rules) : RuleIsValid(config.rules[i])

---------------------------------------------------------------------------
(* domain/models/lifecycle.rs and domain/models/filter.rs                  *)

RuleIdMaxLen == 255

LongId == "xxxxxxxxxxxxxxxxxxxxxxxxxxxxxxxxxxxxxxxxxxxxxxxxxxxxxxxxxxxxxxxxxxxxxxxxxxxxxxxxxxxxxxxxxxxxxxxxxxxxxxxxxxxxxxxxxxxxxxxxxxxxxxxxxxxxxxxxxxxxxxxxxxxxxxxxxxxxxxxxxxxxxxxxxxxxxxxxxxxxxxxxxxxxxxxxxxxxxxxxxxxxxxxxxxxxxxxxxxxxxxxxxxxxxxxxxxxxxxxxxxxxxxxxxxxxxxxx"

(* the Option fields LifecycleRule::has_any_action looks at *)
ActionFields == {"expiration_days", "expiration_date",
                 "expiration_expired_object_delete_marker",
                 "expiration_expired_object_all_versions",
                 "del_marker_expiration_days", "all_versions_expiration_days",
                 "transition_days", "transition_date",
                 "noncurrent_version_expiration_noncurrent_days",
                 "noncurrent_version_transition_noncurrent_days",
                 "abort_incomplete_multipart_upload_days_after_initiation"}

(* the Option fields of LifecycleRule that are no action of their own *)
ModifierFields == {"all_versions_expiration_delete_marker", "transition_storage_class",
                   "noncurrent_version_expiration_newer_versions",
                   "noncurrent_version_transition_storage_class",
                   "noncurrent_version_transition_newer_versions"}

RuleFields == {"id", "status", "filter"} \cup ActionFields \cup ModifierFields

(* Filter::default() *)
EmptyFilter == [prefix |-> None, tags |-> {}, object_size_greater_than |-> None,
                object_size_less_than |-> None]

(* LifecycleRule::default(): RuleStatus::default() is Disabled *)
DefaultRule ==
    [f \in RuleFields |->
        CASE f = "id" -> ""
          [] f = "status" -> "Disabled"
          [] f = "filter" -> EmptyFilter
          [] OTHER -> None]

(* LifecycleRule::has_any_action *)
has_any_action(rule) == \E f \in ActionFields : IsSome(rule[f])

(* LifecycleRule::validate: the first error, or "Ok" *)
rule_validate(rule) ==
    IF rule.id = "" THEN "EmptyRuleId"
    ELSE IF Len(rule.id) > RuleIdMaxLen THEN "RuleIdTooLong"
    ELSE IF IsSome(rule.expiration_days) /\ IsSome(rule.expiration_date)
         THEN "ConflictingExpirationSettings"
    ELSE IF IsSome(rule.transition_days) /\ IsSome(rule.transition_date)
         THEN "ConflictingTransitionSettings"
    ELSE IF ~has_any_action(rule) THEN "NoActionsInRule"
    ELSE "Ok"

(* LifecycleConfiguration::validate of the domain: the first error, or "Ok" *)
RECURSIVE ConfigValidateFrom(_, _, _)
ConfigValidateFrom(rules, i, seen_ids) ==
    IF i > Len(rules) THEN "Ok"
    ELSE IF rules[i].id \in seen_ids THEN "DuplicateRuleId"
    ELSE IF Len(rules[i].id) > RuleIdMaxLen THEN "RuleIdTooLong"
    ELSE IF ~has_any_action(rules[i]) THEN "NoActionsInRule"
    ELSE ConfigValidateFrom(rules, i + 1, seen_ids \cup {rules[i].id})

config_validate(config) == ConfigValidateFrom(config.rules, 1, {})

(* LifecycleServiceImpl::validate_configuration: ValidationResult.is_valid *)
validate_configuration(config) ==
    /\ config_validate(config) = "Ok"
    /\ \A i \in 1..Len(config.rules) : rule_validate(config.rules[i]) = "Ok"

---------------------------------------------------------------------------
(* LifecycleManager *)

NoHolder == <<>>
TaskId(t) == <<"task", t>>
WorkerId(w) == <<"worker", w>>

Workers == 1..MaxWorkers

LiveWorkers == {w \in Workers : wpc[w] \notin {"none", "exited"}}

MIdle == [name |-> "idle", bucket |-> "", config |-> [rules |-> <<>>]]

MNoRes == [name |-> "none", ok |-> FALSE, err |-> ""]

MCall(t, o, at) ==
    /\ mpc[t] = "idle"
    /\ mcalls < MaxManagerCalls
    /\ mcalls' = mcalls + 1
    /\ mpc' = [mpc EXCEPT ![t] = at]
    /\ mop' = [mop EXCEPT ![t] = o]
    /\ mres' = [mres EXCEPT ![t] = MNoRes]

MGoto(t, at) ==
    /\ mpc' = [mpc EXCEPT ![t] = at]
    /\ UNCHANGED <<mop, mres, mcalls>>

MReturn(t, ok, err) ==
    /\ mpc' = [mpc EXCEPT ![t] = "idle"]
    /\ mres' = [mres EXCEPT ![t] = [name |-> mop[t].name, ok |-> ok, err |-> err]]
    /\ mop' = [mop EXCEPT ![t] = MIdle]
    /\ UNCHANGED mcalls

(* get_lifecycle_config: configs.get(bucket).cloned() *)
get_lifecycle_config(bucket) ==
    IF bucket \in DOMAIN configs THEN Some(configs[bucket]) ELSE None

(* set_lifecycle_config: config.validate()? comes first *)
SetLifecycleConfigStart(t, bucket, config) ==
    /\ MCall(t, [name |-> "set_lifecycle_config", bucket |-> bucket, config |-> config],
             "cfg_validate")
    /\ UNCHANGED <<running, configs, cfgLockW, cfgLockR, wpc, wsnap>>

SetLifecycleConfigValidate(t) ==
    /\ mpc[t] = "cfg_validate"
    /\ IF validate(mop[t].config)
       THEN MGoto(t, "cfg_lock")
       ELSE MReturn(t, FALSE, "InvalidLifecycleConfig")
    /\ UNCHANGED <<running, configs, cfgLockW, cfgLockR, wpc, wsnap>>

SetLifecycleConfigLock(t) ==
    /\ mpc[t] = "cfg_lock"
    /\ cfgLockW = NoHolder /\ cfgLockR = {}
    /\ cfgLockW' = TaskId(t)
    /\ MGoto(t, "cfg_insert")
    /\ UNCHANGED <<running, configs, cfgLockR, wpc, wsnap>>

ConfigInsert(cs, bucket, config) ==
    [b \in (DOMAIN cs) \cup {bucket} |-> IF b = bucket THEN config ELSE cs[b]]

SetLifecycleConfigInsert(t) ==
    /\ mpc[t] = "cfg_insert"
    /\ cfgLockW = TaskId(t)
    /\ configs' = ConfigInsert(configs, mop[t].bucket, mop[t].config)
    /\ cfgLockW' = NoHolder
    /\ MReturn(t, TRUE, "")
    /\ UNCHANGED <<running, cfgLockR, wpc, wsnap>>

(* start(): the running flag is read under a read guard that is dropped,   *)
(* then written under a write guard, then the worker is spawned.           *)
StartCheck(t) ==
    /\ MCall(t, [MIdle EXCEPT !.name = "start"], IF running THEN "start_return" ELSE "start_set")
    /\ UNCHANGED <<running, configs, cfgLockW, cfgLockR, wpc, wsnap>>

StartAlreadyRunning(t) ==
    /\ mpc[t] = "start_return"
    /\ MReturn(t, TRUE, "")
    /\ UNCHANGED <<running, configs, cfgLockW, cfgLockR, wpc, wsnap>>

StartSetRunning(t) ==
    /\ mpc[t] = "start_set"
    /\ running' = TRUE
    /\ MGoto(t, "start_spawn")
    /\ UNCHANGED <<configs, cfgLockW, cfgLockR, wpc, wsnap>>

SpawnWorker(wp) ==
    LET w == CHOOSE x \in Workers : wp[x] = "none" /\ \A y \in Workers : wp[y] = "none" => x <= y
    IN [wp EXCEPT ![w] = "check"]

StartSpawn(t) ==
    /\ mpc[t] = "start_spawn"
    /\ \E w \in Workers : wpc[w] = "none"
    /\ wpc' = SpawnWorker(wpc)
    /\ MReturn(t, TRUE, "")
    /\ UNCHANGED <<running, configs, cfgLockW, cfgLockR, wsnap>>

(* stop(): *running = false *)
Stop(t) ==
    /\ MCall(t, [MIdle EXCEPT !.name = "stop"], "idle")
    /\ running' = FALSE
    /\ UNCHANGED <<configs, cfgLockW, cfgLockR, wpc, wsnap>>

(* The worker loop spawned by start() *)
WorkerCheck(w) ==
    /\ wpc[w] = "check"
    /\ wpc' = [wpc EXCEPT ![w] = IF running THEN "snapshot_lock" ELSE "exited"]
    /\ UNCHANGED <<running, configs, cfgLockW, cfgLockR, wsnap, mpc, mop, mres, mcalls>>

WorkerSnapshotLock(w) ==
    /\ wpc[w] = "snapshot_lock"
    /\ cfgLockW = NoHolder
    /\ cfgLockR' = cfgLockR \cup {WorkerId(w)}
    /\ wpc' = [wpc EXCEPT ![w] = "snapshot_clone"]
    /\ UNCHANGED <<running, configs, cfgLockW, wsnap, mpc, mop, mres, mcalls>>

ReleaseSnapshotGuard(w) == cfgLockR' = cfgLockR \ {WorkerId(w)}

WorkerSnapshotClone(w) ==
    /\ wpc[w] = "snapshot_clone"
    /\ WorkerId(w) \in cfgLockR
    /\ wsnap' = [wsnap EXCEPT ![w] = configs]
    /\ ReleaseSnapshotGuard(w)
    /\ wpc' = [wpc EXCEPT ![w] = "apply"]
    /\ UNCHANGED <<running, configs, cfgLockW, mpc, mop, mres, mcalls>>

(* the for loop over config_snapshot: the variant gives up the rest of the *)
(* snapshot once the running flag is cleared                               *)
WorkerApplyWhileRunning(w) ==
    /\ wpc[w] = "apply"
    /\ DOMAIN wsnap[w] # {}
    /\ IF running
       THEN \E b \in DOMAIN wsnap[w] :
               wsnap' = [wsnap EXCEPT ![w] = [x \in (DOMAIN wsnap[w]) \ {b} |-> wsnap[w][x]]]
       ELSE wsnap' = [wsnap EXCEPT ![w] = <<>>]
    /\ UNCHANGED <<running, configs, cfgLockW, cfgLockR, wpc, mpc, mop, mres, mcalls>>

(* apply_lifecycle_rules(&store, &bucket, &config).await: it lists and     *)
(* prints, and changes nothing; its error is printed and dropped.          *)
WorkerApply(w) ==
    /\ wpc[w] = "apply"
    /\ DOMAIN wsnap[w] # {}
    /\ \E b \in DOMAIN wsnap[w] :
          wsnap' = [wsnap EXCEPT ![w] = [x \in (DOMAIN wsnap[w]) \ {b} |-> wsnap[w][x]]]
    /\ UNCHANGED <<running, configs, cfgLockW, cfgLockR, wpc, mpc, mop, mres, mcalls>>

WorkerSleep(w) ==
    /\ wpc[w] = "apply"
    /\ DOMAIN wsnap[w] = {}
    /\ wpc' = [wpc EXCEPT ![w] = "sleep"]
    /\ UNCHANGED <<running, configs, cfgLockW, cfgLockR, wsnap, mpc, mop, mres, mcalls>>

(* sleep(check_interval).await returns *)
WorkerWake(w) ==
    /\ wpc[w] = "sleep"
    /\ wpc' = [wpc EXCEPT ![w] = "check"]
    /\ UNCHANGED <<running, configs, cfgLockW, cfgLockR, wsnap, mpc, mop, mres, mcalls>>

InitSched ==
    /\ running = FALSE
    /\ configs = <<>>
    /\ cfgLockW = NoHolder
    /\ cfgLockR = {}
    /\ wpc = [w \in Workers |-> "none"]
    /\ wsnap = [w \in Workers |-> <<>>]
    /\ mpc = [t \in Tasks |-> "idle"]
    /\ mop = [t \in Tasks |-> MIdle]
    /\ mres = [t \in Tasks |-> MNoRes]
    /\ mcalls = 0

ManagerCall(t) ==
    \/ \E b \in Buckets, c \in ConfigChoices : SetLifecycleConfigStart(t, b, c)
    \/ SetLifecycleConfigValidate(t)
    \/ SetLifecycleConfigLock(t)
    \/ SetLifecycleConfigInsert(t)
    \/ StartCheck(t)
    \/ StartAlreadyRunning(t)
    \/ StartSetRunning(t)
    \/ StartSpawn(t)
    \/ Stop(t)

WorkerStep(w) ==
    \/ WorkerCheck(w)
    \/ WorkerSnapshotLock(w)
    \/ WorkerSnapshotClone(w)
    \/ WorkerApply(w)
    \/ WorkerSleep(w)
    \/ WorkerWake(w)

NextSched ==
    \/ \E t \in Tasks : ManagerCall(t)
    \/ \E w \in Workers : WorkerStep(w)

---------------------------------------------------------------------------
(* VersionedStore::get_version as a call: one read of the backing store,   *)
(* whose outcome the caller receives.                                      *)

GetVersionCall(t, k, v) ==
    /\ pc[t] = "idle"
    /\ calls < MaxCalls
    /\ calls' = calls + 1
    /\ LET r == VsGetVersion(k, v) IN
       res' = [res EXCEPT ![t] = [NoRes EXCEPT !.name = "get_version", !.key = k, !.vid = v,
                                               !.ok = r.ok, !.err = r.err, !.bytes = r.bytes]]
    /\ onlyPuts' = FALSE
    /\ UNCHANGED <<store, versions, versioning_enabled, vlockW, vlockR, nextUuid, clock,
                   pc, op, minted, failures>>

---------------------------------------------------------------------------
(* InMemoryObjectRepository: each method runs under the one lock of the    *)
(* repository, so each is one step.                                        *)

MapPut(m, k, x) == [q \in (DOMAIN m) \cup {k} |-> IF q = k THEN x ELSE m[q]]

StoredVersions(k) == IF k \in DOMAIN objects THEN objects[k] ELSE <<>>

(* save_object_metadata: insert the version, not deleted *)
SaveVersion(objs, k, v, metadata) ==
    LET old == IF k \in DOMAIN objs THEN objs[k] ELSE <<>>
    IN MapPut(objs, k, MapPut(old, v, [metadata |-> metadata, deleted |-> FALSE]))

(* save_object_metadata: the saved version becomes the latest *)
SaveLatest(lv, k, v) == MapPut(lv, k, v)

(* get_latest_version_id *)
get_latest_version_id(k) ==
    IF k \in DOMAIN latest_versions THEN Some(latest_versions[k]) ELSE None

(* get_object_metadata(key, version_id): None for an unknown or a deleted version *)
get_object_metadata(k, version_id) ==
    LET version == IF IsSome(version_id) THEN version_id ELSE get_latest_version_id(k)
    IN IF IsNone(version) THEN None
       ELSE IF version[1] \in DOMAIN StoredVersions(k) /\ ~StoredVersions(k)[version[1]].deleted
            THEN Some(StoredVersions(k)[version[1]].metadata)
            ELSE None

(* list_object_versions: one ObjectVersionInfo per stored version, in no order *)
list_object_versions(k) ==
    {[version_id |-> v,
      last_modified |-> StoredVersions(k)[v].metadata.last_modified,
      etag |-> StoredVersions(k)[v].metadata.etag,
      is_latest |-> (get_latest_version_id(k) = Some(v)),
      deleted |-> StoredVersions(k)[v].deleted] : v \in DOMAIN StoredVersions(k)}

(* object_exists: some version of the key is not deleted *)
object_exists(k) ==
    \E v \in DOMAIN StoredVersions(k) : ~StoredVersions(k)[v].deleted

(* the variant marks nothing *)
MarkNothingDeleted(objs, k, v) == objs

(* mark_version_deleted, for a version the repository holds *)
MarkDeleted(objs, k, v) == [objs EXCEPT ![k][v].deleted = TRUE]

---------------------------------------------------------------------------
(* Service calls *)

SIdle == [name |-> "idle", key |-> <<>>, data |-> "", version_id |-> None, vid |-> <<>>]

SNoRes == [name |-> "none", key |-> <<>>, version_id |-> None, vid |-> <<>>, ok |-> FALSE,
           err |-> "", bytes |-> "", is_latest |-> FALSE, tombstoned |-> FALSE,
           pre_count |-> 0, list |-> <<>>]

SCall(t, o, at) ==
    /\ spc[t] = "idle"
    /\ scalls < MaxSvcCalls
    /\ scalls' = scalls + 1
    /\ spc' = [spc EXCEPT ![t] = at]
    /\ sop' = [sop EXCEPT ![t] = o]

SGoto(t, at) ==
    /\ spc' = [spc EXCEPT ![t] = at]
    /\ UNCHANGED <<sop, sres, scalls>>

SReturn(t, r) ==
    /\ spc' = [spc EXCEPT ![t] = "idle"]
    /\ sop' = [sop EXCEPT ![t] = SIdle]
    /\ sres' = [sres EXCEPT ![t] = r]

SResOf(o) == [SNoRes EXCEPT !.name = o.name, !.key = o.key, !.version_id = o.version_id,
                            !.vid = o.vid]

SOk(o) == [SResOf(o) EXCEPT !.ok = TRUE]

SErr(o, kind) == [SResOf(o) EXCEPT !.err = kind]

(* SystemTime::now() *)
ReadSvcClock(now) == now \in {sclock, IF sclock < MaxSvcClock THEN sclock + 1 ELSE sclock}

(* VersionId::generate(): the text of the time it is called at *)
generate(now) == <<TickName[now + 1]>>

(* VersionedApacheObjectStoreAdapter: format!("{}/.versions/{}", key, version_id) *)
adapter_versioned_path(key, version_id) == key \o <<"/.versions/">> \o version_id

(* a call of the object store that fails: InfrastructureError, nothing changed *)
ObjStoreFails(t) ==
    /\ sfailures < MaxFailures
    /\ sfailures' = sfailures + 1
    /\ SReturn(t, SErr(sop[t], "InfrastructureError"))
    /\ UNCHANGED <<objstore, scalls>>

(* whether the latest version the repository names for k is marked deleted *)
LatestTombstoned(k) ==
    /\ k \in DOMAIN latest_versions
    /\ latest_versions[k] \in DOMAIN StoredVersions(k)
    /\ StoredVersions(k)[latest_versions[k]].deleted

---------------------------------------------------------------------------
(* VersioningServiceImpl::create_versioned_object *)

CreateVersionedStart(t, k, d) ==
    /\ \E now \in 0..MaxSvcClock :
          /\ ReadSvcClock(now)
          /\ sclock' = now
          /\ SCall(t, [SIdle EXCEPT !.name = "create_versioned_object", !.key = k,
                                    !.data = d, !.vid = generate(now)], "cvo_put")
    /\ UNCHANGED <<objstore, objects, latest_versions, sres, sfailures>>

CreateVersionedPut(t) ==
    /\ spc[t] = "cvo_put"
    /\ \/ /\ objstore' = StorePut(objstore, adapter_versioned_path(sop[t].key, sop[t].vid),
                                  sop[t].data)
          /\ SGoto(t, "cvo_save")
          /\ UNCHANGED sfailures
       \/ ObjStoreFails(t)
    /\ UNCHANGED <<objects, latest_versions, sclock>>

CreateVersionedSave(t) ==
    /\ spc[t] = "cvo_save"
    /\ \E now \in 0..MaxSvcClock :
          /\ ReadSvcClock(now)
          /\ sclock' = now
          /\ objects' = SaveVersion(objects, sop[t].key, sop[t].vid,
                                    [last_modified |-> now, etag |-> sop[t].data])
    /\ latest_versions' = SaveLatest(latest_versions, sop[t].key, sop[t].vid)
    /\ SReturn(t, [SOk(sop[t]) EXCEPT !.bytes = sop[t].data, !.is_latest = TRUE])
    /\ UNCHANGED <<objstore, scalls, sfailures>>

---------------------------------------------------------------------------
(* VersioningServiceImpl::restore_version: get_object of the version, then *)
(* create_versioned_object with its data                                   *)

RestoreVersionStart(t, k, v) ==
    /\ SCall(t, [SIdle EXCEPT !.name = "restore_version", !.key = k,
                              !.version_id = Some(v), !.vid = v], "rst_meta")
    /\ UNCHANGED <<objstore, objects, latest_versions, sclock, sres, sfailures>>

RestoreVersionMetadata(t) ==
    /\ spc[t] = "rst_meta"
    /\ IF IsSome(get_object_metadata(sop[t].key, sop[t].version_id))
       THEN SGoto(t, "rst_data")
       ELSE /\ SReturn(t, SErr(sop[t], "VersionNotFound"))
            /\ UNCHANGED scalls
    /\ UNCHANGED <<objstore, objects, latest_versions, sclock, sfailures>>

RestoreVersionData(t) ==
    /\ spc[t] = "rst_data"
    /\ LET path == adapter_versioned_path(sop[t].key, sop[t].version_id[1]) IN
       IF path \in DOMAIN objstore
       THEN /\ sop' = [sop EXCEPT ![t].data = objstore[path]]
            /\ spc' = [spc EXCEPT ![t] = "rst_generate"]
            /\ UNCHANGED <<sres, scalls>>
       ELSE /\ SReturn(t, SErr(sop[t], "ObjectNotFound"))
            /\ UNCHANGED scalls
    /\ UNCHANGED <<objstore, objects, latest_versions, sclock, sfailures>>

(* create_versioned_object: VersionId::generate() *)
RestoreVersionGenerate(t) ==
    /\ spc[t] = "rst_generate"
    /\ \E now \in 0..MaxSvcClock :
          /\ ReadSvcClock(now)
          /\ sclock' = now
          /\ sop' = [sop EXCEPT ![t].vid = generate(now)]
    /\ spc' = [spc EXCEPT ![t] = "cvo_put"]
    /\ UNCHANGED <<objstore, objects, latest_versions, sres, scalls, sfailures>>

---------------------------------------------------------------------------
(* VersioningServiceImpl::get_object *)

VersioningGetStart(t, k, version_id) ==
    /\ SCall(t, [SIdle EXCEPT !.name = "versioning.get_object", !.key = k,
                              !.version_id = version_id,
                              !.vid = IF IsSome(version_id) THEN version_id[1]
                                      ELSE IF IsSome(get_latest_version_id(k))
                                           THEN get_latest_version_id(k)[1] ELSE <<>>],
             IF IsNone(version_id) /\ IsNone(get_latest_version_id(k))
             THEN "vget_none" ELSE "vget_meta")
    /\ sres' = [sres EXCEPT ![t] = [SNoRes EXCEPT !.tombstoned =
                                        (IsNone(version_id) /\ LatestTombstoned(k))]]
    /\ UNCHANGED <<objstore, objects, latest_versions, sclock, sfailures>>

VersioningGetNoLatest(t) ==
    /\ spc[t] = "vget_none"
    /\ SReturn(t, SErr(sop[t], "ObjectNotFound"))
    /\ UNCHANGED <<objstore, objects, latest_versions, sclock, scalls, sfailures>>

VersioningGetMetadata(t) ==
    /\ spc[t] = "vget_meta"
    /\ IF IsSome(get_object_metadata(sop[t].key, Some(sop[t].vid)))
       THEN SGoto(t, "vget_data")
       ELSE /\ SReturn(t, [SErr(sop[t], "VersionNotFound")
                            EXCEPT !.tombstoned = sres[t].tombstoned])
            /\ UNCHANGED scalls
    /\ UNCHANGED <<objstore, objects, latest_versions, sclock, sfailures>>

VersioningGetData(t) ==
    /\ spc[t] = "vget_data"
    /\ LET path == adapter_versioned_path(sop[t].key, sop[t].vid) IN
       IF path \in DOMAIN objstore
       THEN /\ sres' = [sres EXCEPT ![t].bytes = objstore[path]]
            /\ spc' = [spc EXCEPT ![t] = "vget_latest"]
            /\ UNCHANGED <<sop, scalls>>
       ELSE /\ SReturn(t, [SErr(sop[t], "ObjectNotFound")
                            EXCEPT !.tombstoned = sres[t].tombstoned])
            /\ UNCHANGED scalls
    /\ UNCHANGED <<objstore, objects, latest_versions, sclock, sfailures>>

VersioningGetLatest(t) ==
    /\ spc[t] = "vget_latest"
    /\ SReturn(t, [SOk(sop[t]) EXCEPT !.bytes = sres[t].bytes,
                                      !.tombstoned = sres[t].tombstoned,
                                      !.is_latest =
                                          (get_latest_version_id(sop[t].key) = Some(sop[t].vid))])
    /\ UNCHANGED <<objstore, objects, latest_versions, sclock, scalls, sfailures>>

---------------------------------------------------------------------------
(* VersioningServiceImpl::delete_version *)

VersioningDeleteMark(t, k, v) ==
    /\ SCall(t, [SIdle EXCEPT !.name = "versioning.delete_version", !.key = k,
                              !.version_id = Some(v), !.vid = v],
             IF v \in DOMAIN StoredVersions(k) THEN "vdel_store" ELSE "vdel_unknown")
    /\ objects' = IF v \in DOMAIN StoredVersions(k) THEN MarkDeleted(objects, k, v) ELSE objects
    /\ sres' = [sres EXCEPT ![t] = [SNoRes EXCEPT !.pre_count =
                                        Cardinality(DOMAIN StoredVersions(k))]]
    /\ UNCHANGED <<objstore, latest_versions, sclock, sfailures>>

VersioningDeleteUnknown(t) ==
    /\ spc[t] = "vdel_unknown"
    /\ SReturn(t, SErr(sop[t], "VersionNotFound"))
    /\ UNCHANGED <<objstore, objects, latest_versions, sclock, scalls, sfailures>>

VersioningDeleteStore(t) ==
    /\ spc[t] = "vdel_store"
    /\ \/ /\ objstore' = StoreDelete(objstore, adapter_versioned_path(sop[t].key, sop[t].vid))
          /\ SReturn(t, [SOk(sop[t]) EXCEPT !.pre_count = sres[t].pre_count])
          /\ UNCHANGED <<scalls, sfailures>>
       \/ ObjStoreFails(t)
    /\ UNCHANGED <<objects, latest_versions, sclock>>

---------------------------------------------------------------------------
(* VersioningServiceImpl::list_versions: the repository collects the       *)
(* entries of a HashMap, whose iteration order is any order.               *)

IterationOrders(S) ==
    {l \in [1..Cardinality(S) -> S] : \A i, j \in 1..Cardinality(S) : l[i] = l[j] => i = j}

VersioningListVersions(t, k) ==
    /\ spc[t] = "idle"
    /\ scalls < MaxSvcCalls
    /\ scalls' = scalls + 1
    /\ \E l \in IterationOrders(list_object_versions(k)) :
          sres' = [sres EXCEPT ![t] = [SNoRes EXCEPT !.name = "versioning.list_versions",
                                                     !.key = k, !.ok = TRUE, !.list = l]]
    /\ UNCHANGED <<objstore, objects, latest_versions, sclock, spc, sop, sfailures>>

---------------------------------------------------------------------------
(* ObjectServiceImpl *)

CreateObjectStart(t, k, d) ==
    /\ SCall(t, [SIdle EXCEPT !.name = "create_object", !.key = k, !.data = d],
             IF object_exists(k) THEN "oc_exists" ELSE "oc_put")
    /\ UNCHANGED <<objstore, objects, latest_versions, sclock, sres, sfailures>>

CreateObjectExists(t) ==
    /\ spc[t] = "oc_exists"
    /\ SReturn(t, SErr(sop[t], "ObjectAlreadyExists"))
    /\ UNCHANGED <<objstore, objects, latest_versions, sclock, scalls, sfailures>>

CreateObjectPut(t) ==
    /\ spc[t] = "oc_put"
    /\ \/ /\ objstore' = StorePut(objstore, sop[t].key, sop[t].data)
          /\ SGoto(t, "oc_save")
          /\ UNCHANGED sfailures
       \/ ObjStoreFails(t)
    /\ UNCHANGED <<objects, latest_versions, sclock>>

CreateObjectSave(t) ==
    /\ spc[t] = "oc_save"
    /\ \E now \in 0..MaxSvcClock :
          /\ ReadSvcClock(now)
          /\ sclock' = now
          /\ objects' = SaveVersion(objects, sop[t].key, generate(now),
                                    [last_modified |-> now, etag |-> sop[t].data])
          /\ latest_versions' = SaveLatest(latest_versions, sop[t].key, generate(now))
          /\ SReturn(t, [SOk(sop[t]) EXCEPT !.vid = generate(now), !.bytes = sop[t].data])
    /\ UNCHANGED <<objstore, scalls, sfailures>>

ObjectGetStart(t, k, version_id) ==
    /\ SCall(t, [SIdle EXCEPT !.name = "object.get_object", !.key = k,
                              !.version_id = version_id],
             IF IsSome(get_object_metadata(k, version_id)) THEN "og_data" ELSE "og_none")
    /\ sres' = [sres EXCEPT ![t] = [SNoRes EXCEPT !.tombstoned =
                                        (IsNone(version_id) /\ LatestTombstoned(k))]]
    /\ UNCHANGED <<objstore, objects, latest_versions, sclock, sfailures>>

ObjectGetNone(t) ==
    /\ spc[t] = "og_none"
    /\ SReturn(t, [SErr(sop[t], "ObjectNotFound") EXCEPT !.tombstoned = sres[t].tombstoned])
    /\ UNCHANGED <<objstore, objects, latest_versions, sclock, scalls, sfailures>>

ObjectGetData(t) ==
    /\ spc[t] = "og_data"
    /\ IF sop[t].key \in DOMAIN objstore
       THEN SReturn(t, [SOk(sop[t]) EXCEPT !.bytes = objstore[sop[t].key],
                                           !.tombstoned = sres[t].tombstoned])
       ELSE SReturn(t, [SErr(sop[t], "ObjectNotFound") EXCEPT !.tombstoned = sres[t].tombstoned])
    /\ UNCHANGED <<objstore, objects, latest_versions, sclock, scalls, sfailures>>

DeleteObjectStart(t, k) ==
    /\ SCall(t, [SIdle EXCEPT !.name = "delete_object", !.key = k],
             IF object_exists(k) THEN "od_store" ELSE "od_none")
    /\ UNCHANGED <<objstore, objects, latest_versions, sclock, sres, sfailures>>

DeleteObjectNone(t) ==
    /\ spc[t] = "od_none"
    /\ SReturn(t, SErr(sop[t], "ObjectNotFound"))
    /\ UNCHANGED <<objstore, objects, latest_versions, sclock, scalls, sfailures>>

DeleteObjectStore(t) ==
    /\ spc[t] = "od_store"
    /\ \/ /\ objstore' = StoreDelete(objstore, sop[t].key)
          /\ SGoto(t, "od_latest")
          /\ UNCHANGED sfailures
       \/ ObjStoreFails(t)
    /\ UNCHANGED <<objects, latest_versions, sclock>>

DeleteObjectLatest(t) ==
    /\ spc[t] = "od_latest"
    /\ IF IsSome(get_latest_version_id(sop[t].key))
       THEN /\ spc' = [spc EXCEPT ![t] = "od_mark"]
            /\ sop' = [sop EXCEPT ![t].vid = get_latest_version_id(sop[t].key)[1]]
            /\ UNCHANGED sres
       ELSE SReturn(t, SOk(sop[t]))
    /\ UNCHANGED <<objstore, objects, latest_versions, sclock, scalls, sfailures>>

DeleteObjectMark(t) ==
    /\ spc[t] = "od_mark"
    /\ IF sop[t].vid \in DOMAIN StoredVersions(sop[t].key)
       THEN /\ objects' = MarkDeleted(objects, sop[t].key, sop[t].vid)
            /\ SReturn(t, SOk(sop[t]))
       ELSE /\ SReturn(t, SErr(sop[t], "VersionNotFound"))
            /\ UNCHANGED objects
    /\ UNCHANGED <<objstore, latest_versions, sclock, scalls, sfailures>>

---------------------------------------------------------------------------
(* The services over one repository and one object store *)

InitSvc ==
    /\ objstore = <<>>
    /\ objects = <<>>
    /\ latest_versions = <<>>
    /\ sclock = 0
    /\ spc = [t \in Tasks |-> "idle"]
    /\ sop = [t \in Tasks |-> SIdle]
    /\ sres = [t \in Tasks |-> SNoRes]
    /\ scalls = 0
    /\ sfailures = 0

GeneratedVersions == {generate(now) : now \in 0..sclock}

VersioningCall(t) ==
    \/ \E k \in BaseKeys, d \in Data : CreateVersionedStart(t, k, d)
    \/ CreateVersionedPut(t)
    \/ CreateVersionedSave(t)
    \/ \E k \in BaseKeys, v \in GeneratedVersions : VersioningGetStart(t, k, Some(v))
    \/ \E k \in BaseKeys : VersioningGetStart(t, k, None)
    \/ VersioningGetNoLatest(t)
    \/ VersioningGetMetadata(t)
    \/ VersioningGetData(t)
    \/ VersioningGetLatest(t)
    \/ \E k \in BaseKeys, v \in GeneratedVersions : VersioningDeleteMark(t, k, v)
    \/ VersioningDeleteUnknown(t)
    \/ VersioningDeleteStore(t)
    \/ \E k \in BaseKeys : VersioningListVersions(t, k)
    \/ \E k \in BaseKeys, v \in GeneratedVersions : RestoreVersionStart(t, k, v)
    \/ RestoreVersionMetadata(t)
    \/ RestoreVersionData(t)
    \/ RestoreVersionGenerate(t)

ObjectCall(t) ==
    \/ \E k \in BaseKeys, d \in Data : CreateObjectStart(t, k, d)
    \/ CreateObjectExists(t)
    \/ CreateObjectPut(t)
    \/ CreateObjectSave(t)
    \/ \E k \in BaseKeys : ObjectGetStart(t, k, None)
    \/ ObjectGetNone(t)
    \/ ObjectGetData(t)
    \/ \E k \in BaseKeys : DeleteObjectStart(t, k)
    \/ DeleteObjectNone(t)
    \/ DeleteObjectStore(t)
    \/ DeleteObjectLatest(t)
    \/ DeleteObjectMark(t)

NextSvc == \E t \in Tasks : VersioningCall(t) \/ ObjectCall(t)

---------------------------------------------------------------------------
(* Specifications of the versioned store *)

(* VersionedStore::new, then enable_versioning(&mut self) before the store is shared *)
InitVS ==
    /\ store = <<>>
    /\ versions = <<>>
    /\ versioning_enabled \in BOOLEAN
    /\ vlockW = 0
    /\ vlockR = {}
    /\ nextUuid = 1
    /\ clock = 0
    /\ pc = [t \in Tasks |-> "idle"]
    /\ op = [t \in Tasks |-> IdleOp]
    /\ res = [t \in Tasks |-> NoRes]
    /\ minted = <<>>
    /\ failures = 0
    /\ calls = 0
    /\ onlyPuts = TRUE

(* LifecycleServiceImpl::new over an empty repository; the bucket "logs" of  *)
(* the object store holds objects written at instant 0                     *)
LcNoRun == [bucket |-> "", objects |-> <<>>, idx |-> 0, pending |-> <<>>,
            objects_processed |-> 0, objects_affected |-> 0, actions_applied |-> 0,
            errors |-> <<>>, outcomes |-> <<>>]

LcNoRes == [name |-> "none", ok |-> FALSE, err |-> "", bucket |-> "", key |-> <<>>,
            rule_id |-> "", before |-> <<>>,
            config |-> [rules |-> <<>>], at |-> 0, actions_to_apply |-> <<>>, listed |-> <<>>, results |-> LcNoRun]

InitLc ==
    /\ configurations = <<>>
    /\ processing_status = <<>>
    /\ lc_store = [k \in {<<"logs", "/", "old-file.log">>, <<"logs", "/", "a.txt">>,
                          <<"logs", "/", "b.txt">>} |-> 0]
    /\ lnow = 0
    /\ lpc = "idle"
    /\ lrun = LcNoRun
    /\ lres = LcNoRes
    /\ lcalls = 0
    /\ lfailures = 0

InitFun ==
    /\ fin = <<>>
    /\ fout = <<>>
    /\ fdone = ""

RIdle == [name |-> "idle", bucket |-> "", rule |-> <<>>, rule_id |-> "", status |-> "",
          found |-> <<>>]

RNoRes == [name |-> "none", ok |-> FALSE, err |-> "", bucket |-> "", rule |-> <<>>,
           rule_id |-> "", before |-> <<>>]

InitRules ==
    /\ rpc = [t \in Tasks |-> "idle"]
    /\ rop = [t \in Tasks |-> RIdle]
    /\ rres = [t \in Tasks |-> RNoRes]
    /\ rcalls = 0

VcNoRes == [name |-> "none", bucket |-> "", config |-> None]

InitVc ==
    /\ versioning_configs = <<>>
    /\ vcres = VcNoRes

Init == InitVS /\ InitSched /\ InitSvc /\ InitFun /\ InitLc /\ InitRules /\ InitVc

VsWrite(t, keys, vids) ==
    \/ \E k \in keys, d \in Data : PutStart(t, k, d)
    \/ PutVersioned(t)
    \/ AddVersionMetadataLock(t)
    \/ AddVersionMetadataPush(t)
    \/ PutPrimary(t)
    \/ \E k \in keys, d \in Data : PutPlainStart(t, k, d)
    \/ PutPlain(t)
    \/ \E k \in keys : DeleteStart(t, k)
    \/ DeletePrimary(t)
    \/ DeleteLock(t)
    \/ DeleteCheck(t)
    \/ DeletePlain(t)
    \/ \E k \in keys, v \in vids : DeleteVersionStart(t, k, v)
    \/ DeleteVersionStore(t)
    \/ DeleteVersionLock(t)
    \/ DeleteVersionRetain(t)
    \/ \E from \in BaseKeys, to \in BaseKeys : CopyStart(t, from, to)
    \/ CopyGet(t)
    \/ CopyVersioned(t)
    \/ CopyPrimary(t)
    \/ \E from \in BaseKeys, to \in BaseKeys : CopyPlainStart(t, from, to)

(* enable_versioning(&mut self, enabled): the exclusive borrow means no    *)
(* call of the store is in flight                                          *)
EnableVersioning(enabled) ==
    /\ AllIdle
    /\ versioning_enabled' = enabled
    /\ UNCHANGED <<store, versions, vlockW, vlockR, nextUuid, clock, pc, op, res, calls,
                   minted, failures, onlyPuts>>

(* One client calling the store, one call after the other *)
NextSeq ==
    \/ VsWrite(1, ClientKeys, ClientVersions)
    \/ \E k \in BaseKeys, v \in ClientVersions : GetVersionCall(1, k, v)

SpecSeq == Init /\ [][NextSeq /\ UNCHANGED notVS]_vars

(* One client that also switches versioning on and off between its calls *)
NextSwitched ==
    \/ NextSeq
    \/ \E enabled \in BOOLEAN : EnableVersioning(enabled)

SpecSwitched == Init /\ [][NextSwitched /\ UNCHANGED notVS]_vars

(* Concurrent callers *)
NextVS ==
    \E t \in Tasks :
        /\ pc[t] = "idle" => calls < MaxConcurrentCalls
        /\ VsWrite(t, BaseKeys, MintedVersions)

SpecVS == Init /\ [][NextVS /\ UNCHANGED notVS]_vars

(* The lifecycle manager, its callers and its workers *)
SpecSched == Init /\ [][NextSched /\ UNCHANGED notSched]_vars

(* The runtime keeps polling the spawned worker and the futures of calls   *)
(* that have begun: a step of either that stays possible is taken. Nothing *)
(* makes a caller begin a call.                                            *)
ManagerProgress(t) == mpc[t] # "idle" /\ ManagerCall(t)

SpecSchedFair ==
    /\ SpecSched
    /\ \A w \in Workers : WF_vars(WorkerStep(w) /\ UNCHANGED notSched)
    /\ \A t \in Tasks : WF_vars(ManagerProgress(t) /\ UNCHANGED notSched)

(* The services *)
SpecSvc == Init /\ [][NextSvc /\ UNCHANGED notSvc]_vars

(* One client of the object service, one call after the other *)
SpecObjects == Init /\ [][ObjectCall(1) /\ UNCHANGED notSvc]_vars

(* VersioningServiceImpl: the versioning configuration of buckets. Each    *)
(* call holds the lock of versioning_configs from its first statement to   *)
(* its return, so each is one step.                                        *)
VersioningBuckets == {"logs", "media", "tmp"}

VersioningConfiguration(enabled, max_versions) ==
    [enabled |-> enabled, max_versions |-> max_versions]

(* VersioningConfiguration::default() *)
DefaultVersioningConfiguration == VersioningConfiguration(TRUE, None)

VcResult(name, bucket, config) == [name |-> name, bucket |-> bucket, config |-> config]

ServiceEnableVersioning(bucket) ==
    /\ versioning_configs' = MapPut(versioning_configs, bucket,
                                    VersioningConfiguration(TRUE, None))
    /\ vcres' = VcResult("enable_versioning", bucket, None)

(* disable_versioning: if let Some(config) = configs.get_mut(bucket) *)
ServiceDisableVersioning(bucket) ==
    /\ versioning_configs' =
           IF bucket \in DOMAIN versioning_configs
           THEN [versioning_configs EXCEPT ![bucket].enabled = FALSE]
           ELSE versioning_configs
    /\ vcres' = VcResult("disable_versioning", bucket, None)

(* configs.get(bucket).cloned().unwrap_or_default() *)
get_versioning_configuration(bucket) ==
    IF bucket \in DOMAIN versioning_configs
    THEN versioning_configs[bucket]
    ELSE DefaultVersioningConfiguration

GetVersioningConfiguration(bucket) ==
    /\ vcres' = VcResult("get_versioning_configuration", bucket,
                         Some(get_versioning_configuration(bucket)))
    /\ UNCHANGED versioning_configs

NextVc ==
    \E b \in VersioningBuckets :
        \/ ServiceEnableVersioning(b)
        \/ ServiceDisableVersioning(b)
        \/ GetVersioningConfiguration(b)

SpecVc == Init /\ [][NextVc /\ UNCHANGED notVc]_vars

(* Concurrent callers of create_object only *)
NextCreate ==
    \E t \in Tasks :
        \/ \E k \in BaseKeys, d \in Data : CreateObjectStart(t, k, d)
        \/ CreateObjectExists(t)
        \/ CreateObjectPut(t)
        \/ CreateObjectSave(t)

SpecCreate == Init /\ [][NextCreate /\ UNCHANGED notSvc]_vars

(* InMemoryObjectRepository called directly: save_object_metadata,         *)
(* mark_version_deleted and delete_version_metadata, each one step under   *)
(* the lock of the repository.                                             *)
SvcRest == <<objstore, spc, sop, sres, scalls, sfailures>>

RepoVersionIds == {generate(now) : now \in 0..MaxSvcClock}

RepoSaveObjectMetadata(k, v, d) ==
    /\ \E now \in 0..MaxSvcClock :
          /\ ReadSvcClock(now)
          /\ sclock' = now
          /\ objects' = SaveVersion(objects, k, v, [last_modified |-> now, etag |-> d])
    /\ latest_versions' = SaveLatest(latest_versions, k, v)
    /\ UNCHANGED SvcRest

RepoMarkVersionDeleted(k, v) ==
    /\ v \in DOMAIN StoredVersions(k)
    /\ objects' = MarkDeleted(objects, k, v)
    /\ UNCHANGED <<latest_versions, sclock>>
    /\ UNCHANGED SvcRest

(* the non-deleted versions max_by_key(last_modified) can return: the map  *)
(* iterates in any order, so any of the newest ones                        *)
NewestLive(vs) ==
    {v \in DOMAIN vs :
        /\ ~vs[v].deleted
        /\ \A w \in DOMAIN vs :
              ~vs[w].deleted => vs[w].metadata.last_modified <= vs[v].metadata.last_modified}

RepoDeleteVersionMetadata(k, v) ==
    LET should_update_latest == get_latest_version_id(k) = Some(v)
        versions_left == [w \in (DOMAIN StoredVersions(k)) \ {v} |-> StoredVersions(k)[w]]
        should_remove_object == DOMAIN versions_left = {}
    IN  /\ v \in DOMAIN StoredVersions(k)
        /\ objects' = IF should_remove_object
                      THEN [q \in (DOMAIN objects) \ {k} |-> objects[q]]
                      ELSE [objects EXCEPT ![k] = versions_left]
        /\ IF should_remove_object \/ (should_update_latest /\ NewestLive(versions_left) = {})
           THEN latest_versions' = [q \in (DOMAIN latest_versions) \ {k} |-> latest_versions[q]]
           ELSE IF should_update_latest
           THEN \E new_latest \in NewestLive(versions_left) :
                    latest_versions' = MapPut(latest_versions, k, new_latest)
           ELSE latest_versions' = latest_versions
        /\ UNCHANGED sclock
        /\ UNCHANGED SvcRest

NextRepo ==
    \E k \in BaseKeys, v \in RepoVersionIds :
        \/ \E d \in Data : RepoSaveObjectMetadata(k, v, d)
        \/ RepoMarkVersionDeleted(k, v)
        \/ RepoDeleteVersionMetadata(k, v)

SpecRepo == Init /\ [][NextRepo /\ UNCHANGED notSvc]_vars

(* The store and the manager share no state: the locks of both are         *)
(* explored side by side, one component at a time.                         *)
SchedUntouched == mcalls = 0

StoreUntouched == calls = 0

NextLocks ==
    \/ SchedUntouched /\ NextVS /\ UNCHANGED notVS
    \/ StoreUntouched /\ NextSched /\ UNCHANGED notSched

SpecLocks == Init /\ [][NextLocks]_vars

---------------------------------------------------------------------------
(* Properties of the versioned store *)

(* the writes that minted a version for key k, in the order they began *)
MintedFor(k) ==
    LET all == [i \in 1..Len(minted) |-> [vid |-> Uuid(i), key |-> minted[i].key,
                                          data |-> minted[i].data, name |-> minted[i].name]]
        ForK(m) == m.key = k
    IN SelectSeq(all, ForK)

MintedKeys == {minted[i].key : i \in 1..Len(minted)}

Last(s) == s[Len(s)]

(* C1: when every call so far was a successful versioned put and none is   *)
(* in flight, a version-less get of each written key returns the bytes of  *)
(* the last put of that key, and list_versions of the key is the list of   *)
(* the versions those puts created, oldest first.                          *)
C1_LatestIsLastPut ==
    (onlyPuts /\ AllIdle) =>
        \A k \in MintedKeys :
            LET puts == MintedFor(k) IN
            /\ VsGet(k) = [ok |-> TRUE, err |-> "", bytes |-> Last(puts).data]
            /\ [i \in 1..Len(VsListVersions(k)) |-> VsListVersions(k)[i].version_id]
                   = [i \in 1..Len(puts) |-> puts[i].vid]

C1_TwoPutsDone ==
    /\ onlyPuts /\ AllIdle
    /\ \E k \in MintedKeys :
          /\ Len(MintedFor(k)) = 2
          /\ MintedFor(k)[1].data = "d1" /\ MintedFor(k)[2].data = "d2"
          /\ Len(VsListVersions(k)) = 2
          /\ VsGet(k).bytes = "d2"

(* C2: as long as a version created by a put is in the history of its key, *)
(* get_version of it returns the bytes that put wrote, whatever was        *)
(* written, copied or deleted since.                                       *)
C2_VersionIsolation ==
    AllIdle =>
        \A i \in 1..Len(minted) :
            (minted[i].name = "put"
             /\ Uuid(i) \in SeqRange(VersionIds(minted[i].key))) =>
                VsGetVersion(minted[i].key, Uuid(i))
                    = [ok |-> TRUE, err |-> "", bytes |-> minted[i].data]

NewestRemaining(k) ==
    {e \in SeqRange(VsListVersions(k)) :
        \A f \in SeqRange(VsListVersions(k)) : f.created_at <= e.created_at}

(* C3: after delete_version removed the latest version of a key and other  *)
(* versions remain, a version-less get returns the bytes of a remaining    *)
(* version with the greatest creation time.                                *)
C3_DeleteLatestPromotes ==
    \A t \in Tasks :
        (/\ pc[t] = "idle"
         /\ res[t].name = "delete_version" /\ res[t].ok /\ res[t].was_latest
         /\ res[t].pre_len > 1) =>
            \E e \in NewestRemaining(res[t].key) :
                /\ VsGet(res[t].key).ok
                /\ VsGet(res[t].key) = VsGetVersion(res[t].key, e.version_id)

(* C6: when concurrent puts of a key have all completed successfully, a    *)
(* version-less get returns the bytes stored under the last entry of       *)
(* list_versions of that key.                                              *)
C6_PrimaryMatchesLastEntry ==
    (onlyPuts /\ AllIdle) =>
        \A k \in DOMAIN versions :
            /\ VsGet(k).ok
            /\ VsGet(k) = VsGetVersion(k, Last(VsListVersions(k)).version_id)

(* C7: a versioned put that returned an error left no history entry and no *)
(* versioned object of the version it had minted.                          *)
C7_FailedPutLeavesNothing ==
    \A t \in Tasks :
        (pc[t] = "idle" /\ res[t].name = "put" /\ ~res[t].ok /\ res[t].vid # <<>>) =>
            /\ res[t].vid \notin SeqRange(VersionIds(res[t].key))
            /\ versioned_path(res[t].key, res[t].vid) \notin DOMAIN store

(* C10: get_version of a version that the history of the key does not hold *)
(* fails with VersionNotFound.                                             *)
C10_UnknownVersionNotFound ==
    \A t \in Tasks :
        (/\ res[t].name = "get_version"
         /\ res[t].vid \notin SeqRange(VersionIds(res[t].key))) =>
            (~res[t].ok /\ res[t].err = "VersionNotFound")

---------------------------------------------------------------------------
(* Properties of the lifecycle manager and of the locks *)

(* C5: at most one worker loop exists at any time, whatever the sequence   *)
(* or interleaving of start() and stop() calls.                            *)
C5_AtMostOneWorker == Cardinality(LiveWorkers) <= 1

(* where a task of the versioned store is suspended on the backing store *)
StoreAwaits == {"put_versioned", "put_primary", "put_plain", "delete_primary", "delete_plain",
                "dv_delete", "copy_get", "copy_versioned", "copy_primary", "copy_plain"}

(* where a worker is suspended: in apply_lifecycle_rules or in sleep *)
WorkerAwaits == {"apply", "sleep"}

(* C8: a task suspended on a backing-store await holds no guard of the     *)
(* version-history lock, and a worker suspended in its loop holds no guard *)
(* of the configuration lock.                                              *)
C8_NoLockAcrossAwait ==
    /\ \A t \in Tasks :
          pc[t] \in StoreAwaits \cup {"idle"} => (vlockW # t /\ t \notin vlockR)
    /\ \A w \in Workers :
          wpc[w] \in WorkerAwaits =>
              (cfgLockW # WorkerId(w) /\ WorkerId(w) \notin cfgLockR)

C8_AwaitAfterGuard ==
    \E t \in Tasks, u \in Tasks :
        /\ pc[t] = "put_primary"
        /\ op[t].vid \in SeqRange(VersionIds(op[t].key))
        /\ pc[u] = "meta_push" /\ vlockW = u

---------------------------------------------------------------------------
(* Properties of the services *)

(* task t is the only one that has called the services so far *)
Alone(t) == \A u \in Tasks \ {t} : spc[u] = "idle" /\ sres[u].name = "none"

(* C4, for VersioningServiceImpl::delete_version: after it deleted the     *)
(* only version of a key, the repository has no entry for the key and      *)
(* list_versions returns no version.                                       *)
C4_OnlyVersionDeletedPrunesKey ==
    \A t \in Tasks :
        (/\ Alone(t) /\ spc[t] = "idle"
         /\ sres[t].name = "versioning.delete_version" /\ sres[t].ok
         /\ sres[t].pre_count = 1) =>
            /\ sres[t].key \notin DOMAIN objects
            /\ list_object_versions(sres[t].key) = {}

(* C4, for VersionedStore::delete_version: after it deleted the only       *)
(* version of a key, the key has no entry in the version-history map and   *)
(* list_versions returns no version.                                       *)
C4_StoreOnlyVersionDeletedPrunesKey ==
    \A t \in Tasks :
        (/\ pc[t] = "idle"
         /\ res[t].name = "delete_version" /\ res[t].ok /\ res[t].pre_len = 1
         /\ res[t].was_latest) =>
            /\ res[t].key \notin DOMAIN versions
            /\ VsListVersions(res[t].key) = <<>>

(* C9: a get without a version id of a key whose latest version is marked  *)
(* deleted fails with ObjectNotFound.                                      *)
C9_TombstonedLatestIsObjectNotFound ==
    \A t \in Tasks :
        (/\ Alone(t) /\ spc[t] = "idle"
         /\ sres[t].name \in {"versioning.get_object", "object.get_object"}
         /\ IsNone(sres[t].version_id)
         /\ sres[t].tombstoned) =>
            (~sres[t].ok /\ sres[t].err = "ObjectNotFound")

---------------------------------------------------------------------------
(* Ordering of version listings *)

(* C11, for VersioningServiceImpl::list_versions: the versions it returns  *)
(* are ordered by creation time, oldest first.                             *)
C11_ListingOldestFirst ==
    \A t \in Tasks :
        sres[t].name = "versioning.list_versions" =>
            \A i, j \in 1..Len(sres[t].list) :
                i < j => sres[t].list[i].last_modified <= sres[t].list[j].last_modified

(* C11, for VersionedStore::list_versions: the history of every key is     *)
(* ordered by creation time, oldest first.                                 *)
C11_StoreHistoryOldestFirst ==
    \A k \in DOMAIN versions :
        \A i, j \in 1..Len(VsListVersions(k)) :
            i < j => VsListVersions(k)[i].created_at <= VsListVersions(k)[j].created_at

---------------------------------------------------------------------------
(* Validation of lifecycle rules and configurations, applied to inputs     *)

MaxActionsSet == 2

SampleValue(f) ==
    IF f \in {"expiration_expired_object_delete_marker",
              "expiration_expired_object_all_versions"} THEN TRUE ELSE 1

LogsPrefix == <<"logs", "/">>

(* domain rules: every id, status and filter, with up to MaxActionsSet     *)
(* of the action fields given                                              *)
DomainRuleInputs ==
    {[f \in RuleFields |->
         CASE f = "id" -> id
           [] f = "status" -> status
           [] f = "filter" -> filter
           [] f \in given -> Some(SampleValue(f))
           [] OTHER -> None] :
        id \in {"", "r1", LongId},
        status \in {"Enabled", "Disabled"},
        filter \in {EmptyFilter, [EmptyFilter EXCEPT !.prefix = Some(LogsPrefix)]},
        given \in {g \in SUBSET ActionFields : Cardinality(g) <= MaxActionsSet}}

ExpireAfterOneDay == [DefaultRule EXCEPT !.id = "r2", !.status = "Enabled",
                                         !.expiration_days = Some(1)]

DomainConfigInputs ==
    {[rules |-> <<r>>] : r \in DomainRuleInputs}
    \cup {[rules |-> <<ExpireAfterOneDay, r>>] : r \in DomainRuleInputs}
    \cup {[rules |-> <<r, ExpireAfterOneDay>>] : r \in DomainRuleInputs}

(* rules of the storage adapter: LifecycleRule of adapters/outbound/storage/lifecycle.rs *)
AdapterRuleInputs ==
    {[id |-> "r1", prefix |-> prefix, status |-> status, expiration |-> expiration,
      transitions |-> transitions] :
        prefix \in {"", "logs/"},
        status \in {"Enabled", "Disabled"},
        expiration \in {None, Some([days |-> None, date |-> None]),
                        Some([days |-> Some(30), date |-> None])},
        transitions \in {None, Some(<<>>),
                         Some(<<[days |-> Some(1), date |-> None, storage_class |-> "GLACIER"]>>),
                         Some(<<[days |-> None, date |-> None, storage_class |-> "GLACIER"]>>)}}

AdapterConfigInputs ==
    {[rules |-> <<r>>] : r \in AdapterRuleInputs}
    \cup {[rules |-> <<ExpireIn30, r>>] : r \in AdapterRuleInputs}

ValidateInputs ==
    {[fn |-> "LifecycleRule::validate", arg |-> r] : r \in DomainRuleInputs}
    \cup {[fn |-> "LifecycleConfiguration::validate", arg |-> c] : c \in DomainConfigInputs}
    \cup {[fn |-> "validate_configuration", arg |-> c] : c \in DomainConfigInputs}
    \cup {[fn |-> "storage::LifecycleConfiguration::validate", arg |-> c] :
             c \in AdapterConfigInputs}

Applied(fn, result) ==
    /\ fdone = ""
    /\ fin.fn = fn
    /\ fdone' = fn
    /\ fout' = result
    /\ UNCHANGED fin

ApplyRuleValidate == Applied("LifecycleRule::validate", rule_validate(fin.arg))

ApplyConfigValidate == Applied("LifecycleConfiguration::validate", config_validate(fin.arg))

ApplyValidateConfiguration ==
    Applied("validate_configuration",
            IF validate_configuration(fin.arg) THEN "Ok" ELSE "ValidationFailed")

ApplyAdapterValidate ==
    Applied("storage::LifecycleConfiguration::validate",
            IF validate(fin.arg) THEN "Ok" ELSE "InvalidLifecycleConfig")

InitValidate ==
    /\ InitVS /\ versioning_enabled /\ InitSched /\ InitSvc /\ InitLc /\ InitRules /\ InitVc
    /\ fin \in ValidateInputs
    /\ fout = <<>>
    /\ fdone = ""

NextValidate ==
    \/ ApplyRuleValidate
    \/ ApplyConfigValidate
    \/ ApplyValidateConfiguration
    \/ ApplyAdapterValidate

SpecValidate == InitValidate /\ [][NextValidate /\ UNCHANGED notFun]_vars

(* a rule of the domain none of whose action fields is given *)
DomainRuleHasNoAction(rule) == \A f \in ActionFields : rule[f] = None

(* a rule of the storage adapter with no expiration and not one transition *)
AdapterRuleHasNoAction(rule) ==
    /\ rule.expiration = None
    /\ (rule.transitions = None \/ rule.transitions = Some(<<>>))

InputHasNoActionRule ==
    CASE fin.fn = "LifecycleRule::validate" -> DomainRuleHasNoAction(fin.arg)
      [] fin.fn = "storage::LifecycleConfiguration::validate" ->
            \E i \in 1..Len(fin.arg.rules) : AdapterRuleHasNoAction(fin.arg.rules[i])
      [] OTHER -> \E i \in 1..Len(fin.arg.rules) : DomainRuleHasNoAction(fin.arg.rules[i])

(* C13: a rule that specifies no action fails validation whatever its id,  *)
(* status and filter, and a configuration that contains such a rule is     *)
(* rejected.                                                               *)
C13_NoActionRuleRejected ==
    (fdone # "" /\ fdone = fin.fn /\ InputHasNoActionRule) => fout # "Ok"

(* C13, for the validation of the domain model and of the lifecycle        *)
(* service alone.                                                          *)
C13_DomainNoActionRuleRejected ==
    (fdone \in {"LifecycleRule::validate", "LifecycleConfiguration::validate",
                "validate_configuration"} /\ InputHasNoActionRule) => fout # "Ok"

---------------------------------------------------------------------------
(* services/lifecycle_service_impl.rs: evaluation of the rules of a bucket *)
(* Instants are whole seconds; a key is its sequence of segments and "/".  *)

SecondsPerDay == 86400

(* the names BucketName::new accepts among the segments used here: 3 to 63 *)
(* characters, lowercase letters, digits and hyphens only                  *)
ValidBucketNames == {"logs", "test-bucket"}

LcBuckets == ValidBucketNames

LogsKey == <<"logs", "/", "old-file.log">>
BucketedLogsKey == <<"test-bucket", "/", "logs", "/", "old-file.log">>
OtherKey == <<"test-bucket", "/", "a.txt">>
BareKey == <<"old-file.log">>

(* key.split('/')[0] *)
FirstSegment(key) ==
    LET slashes == {i \in 1..Len(key) : key[i] = "/"}
        stop == IF slashes = {} THEN Len(key) + 1
                ELSE CHOOSE i \in slashes : \A j \in slashes : i <= j
    IN  SubSeq(key, 1, stop - 1)

(* extract_bucket_from_key: Some(bucket), or None for ValidationFailed *)
extract_bucket_from_key(key) ==
    LET first == FirstSegment(key)
    IN  IF Len(first) = 1 /\ first[1] \in ValidBucketNames THEN Some(first[1]) ELSE None

starts_with(key, prefix) ==
    /\ Len(prefix) <= Len(key)
    /\ SubSeq(key, 1, Len(prefix)) = prefix

(* Filter::matches *)
filter_matches(filter, key, object_tags, object_size) ==
    /\ IsSome(filter.prefix) => starts_with(key, filter.prefix[1])
    /\ \A tag \in filter.tags : tag \in object_tags
    /\ IsSome(filter.object_size_greater_than) =>
          object_size > filter.object_size_greater_than[1]
    /\ IsSome(filter.object_size_less_than) =>
          object_size < filter.object_size_less_than[1]

(* LifecycleRule::matches *)
matches(rule, key, tags, object_size) ==
    /\ rule.status = "Enabled"
    /\ filter_matches(rule.filter, key, tags, object_size)

(* the two tests at the head of the loop: the rule is skipped unless both pass *)
RuleAppliesWhateverStatus(rule, request) ==
    filter_matches(rule.filter, request.key, request.object_tags, 0)

RuleApplies(rule, request) ==
    /\ rule.status = "Enabled"
    /\ matches(rule, request.key, request.object_tags, 0)

(* duration_since(created).unwrap_or(0), as_secs() *)
age_secs(request, current_time) ==
    IF current_time >= request.object_created_at
    THEN current_time - request.object_created_at
    ELSE 0

should_expire_by_days_early(request, days, current_time) ==
    age_secs(request, current_time) >= (days - 1) * SecondsPerDay

should_expire_by_days(request, days, current_time) ==
    age_secs(request, current_time) >= days * SecondsPerDay

should_expire_by_date(expiration_date, current_time) == current_time >= expiration_date

should_transition_by_days(request, days, current_time) ==
    should_expire_by_days(request, days, current_time)

ApplicableAction(rule, action, days, date, storage_class) ==
    [rule_id |-> rule.id, action |-> action, days |-> days, date |-> date,
     storage_class |-> storage_class]

When(cond, action) == IF cond THEN <<action>> ELSE <<>>

(* the body of the loop for one rule that applies: the reversed variant    *)
(* pushes the same actions last test first                                 *)
RuleActionsReversed(rule, request, current_time) ==
    When(IsSome(rule.abort_incomplete_multipart_upload_days_after_initiation),
         ApplicableAction(rule, "AbortIncompleteMultipartUpload",
             rule.abort_incomplete_multipart_upload_days_after_initiation, None, None))
    \o When(/\ IsSome(rule.noncurrent_version_transition_noncurrent_days)
            /\ IsSome(rule.noncurrent_version_transition_storage_class)
            /\ ~request.is_current_version
            /\ should_transition_by_days(request,
                   rule.noncurrent_version_transition_noncurrent_days[1], current_time),
            ApplicableAction(rule, "NonCurrentVersionTransition",
                rule.noncurrent_version_transition_noncurrent_days, None,
                rule.noncurrent_version_transition_storage_class))
    \o When(/\ IsSome(rule.noncurrent_version_expiration_noncurrent_days)
            /\ ~request.is_current_version
            /\ should_expire_by_days(request,
                   rule.noncurrent_version_expiration_noncurrent_days[1], current_time),
            ApplicableAction(rule, "NonCurrentVersionExpiration",
                rule.noncurrent_version_expiration_noncurrent_days, None, None))
    \o When(/\ IsSome(rule.del_marker_expiration_days)
            /\ request.is_delete_marker
            /\ should_expire_by_days(request, rule.del_marker_expiration_days[1], current_time),
            ApplicableAction(rule, "ExpireDeleteMarker", rule.del_marker_expiration_days,
                             None, None))
    \o When(/\ IsSome(rule.transition_days)
            /\ IsSome(rule.transition_storage_class)
            /\ should_transition_by_days(request, rule.transition_days[1], current_time),
            ApplicableAction(rule, "Transition", rule.transition_days, None,
                             rule.transition_storage_class))
    \o When(/\ IsSome(rule.expiration_date)
            /\ should_expire_by_date(rule.expiration_date[1], current_time),
            ApplicableAction(rule, "Expiration", None, rule.expiration_date, None))
    \o When(/\ IsSome(rule.expiration_days)
            /\ should_expire_by_days(request, rule.expiration_days[1], current_time),
            ApplicableAction(rule, "Expiration", rule.expiration_days, None, None))

RuleActions(rule, request, current_time) ==
    When(/\ IsSome(rule.expiration_days)
         /\ should_expire_by_days(request, rule.expiration_days[1], current_time),
         ApplicableAction(rule, "Expiration", rule.expiration_days, None, None))
    \o When(/\ IsSome(rule.expiration_date)
            /\ should_expire_by_date(rule.expiration_date[1], current_time),
            ApplicableAction(rule, "Expiration", None, rule.expiration_date, None))
    \o When(/\ IsSome(rule.transition_days)
            /\ IsSome(rule.transition_storage_class)
            /\ should_transition_by_days(request, rule.transition_days[1], current_time),
            ApplicableAction(rule, "Transition", rule.transition_days, None,
                             rule.transition_storage_class))
    \o When(/\ IsSome(rule.del_marker_expiration_days)
            /\ request.is_delete_marker
            /\ should_expire_by_days(request, rule.del_marker_expiration_days[1], current_time),
            ApplicableAction(rule, "ExpireDeleteMarker", rule.del_marker_expiration_days,
                             None, None))
    \o When(/\ IsSome(rule.noncurrent_version_expiration_noncurrent_days)
            /\ ~request.is_current_version
            /\ should_expire_by_days(request,
                   rule.noncurrent_version_expiration_noncurrent_days[1], current_time),
            ApplicableAction(rule, "NonCurrentVersionExpiration",
                rule.noncurrent_version_expiration_noncurrent_days, None, None))
    \o When(/\ IsSome(rule.noncurrent_version_transition_noncurrent_days)
            /\ IsSome(rule.noncurrent_version_transition_storage_class)
            /\ ~request.is_current_version
            /\ should_transition_by_days(request,
                   rule.noncurrent_version_transition_noncurrent_days[1], current_time),
            ApplicableAction(rule, "NonCurrentVersionTransition",
                rule.noncurrent_version_transition_noncurrent_days, None,
                rule.noncurrent_version_transition_storage_class))
    \o When(IsSome(rule.abort_incomplete_multipart_upload_days_after_initiation),
            ApplicableAction(rule, "AbortIncompleteMultipartUpload",
                rule.abort_incomplete_multipart_upload_days_after_initiation, None, None))

(* for rule in &config.rules, from rule i on *)
RECURSIVE EvaluateRules(_, _, _, _)
EvaluateRules(rules, i, request, current_time) ==
    IF i > Len(rules) THEN <<>>
    ELSE (IF RuleApplies(rules[i], request)
          THEN RuleActions(rules[i], request, current_time)
          ELSE <<>>)
         \o EvaluateRules(rules, i + 1, request, current_time)

(* evaluate_object_lifecycle over the stored configurations repo: the bucket is *)
(* taken from the key, an absent configuration gives the empty list        *)
evaluate_object_lifecycle(repo, request, current_time) ==
    LET bucket_name == extract_bucket_from_key(request.key)
    IN  IF IsNone(bucket_name)
        THEN [ok |-> FALSE, err |-> "ValidationFailed", actions_to_apply |-> <<>>]
        ELSE IF bucket_name[1] \notin DOMAIN repo
        THEN [ok |-> TRUE, err |-> "", actions_to_apply |-> <<>>]
        ELSE [ok |-> TRUE, err |-> "",
              actions_to_apply |->
                  EvaluateRules(repo[bucket_name[1]].rules, 1, request,
                                current_time)]

---------------------------------------------------------------------------
(* Evaluation applied to inputs: the stored configuration of one bucket,   *)
(* the facts of one object and the instant of the evaluation               *)

MaxRuleActions == 2

DateAt == 40 * SecondsPerDay

NowChoices == {DateAt - 1, DateAt}

CreatedChoices == {DateAt - 31 * SecondsPerDay, DateAt - 30 * SecondsPerDay,
                   DateAt - 29 * SecondsPerDay, DateAt - 2 * SecondsPerDay, DateAt + 1}

DaysChoices == {0, 30}

StorageClassFields == {"transition_storage_class",
                       "noncurrent_version_transition_storage_class"}

DateFields == {"expiration_date", "transition_date"}

EvalFields == ActionFields \cup StorageClassFields

EvalValue(f, days) ==
    CASE f \in DateFields -> DateAt
      [] f \in StorageClassFields -> "GLACIER"
      [] f \in {"expiration_expired_object_delete_marker",
                "expiration_expired_object_all_versions"} -> TRUE
      [] OTHER -> days

EvalRule(id, status, filter, given, days) ==
    [f \in RuleFields |->
        CASE f = "id" -> id
          [] f = "status" -> status
          [] f = "filter" -> filter
          [] f \in given -> Some(EvalValue(f, days))
          [] OTHER -> None]

EvalRuleInputs ==
    {r \in {EvalRule("r1", status, filter, given, days) :
                status \in {"Enabled", "Disabled"},
                filter \in {EmptyFilter, [EmptyFilter EXCEPT !.prefix = Some(LogsPrefix)]},
                given \in {g \in SUBSET EvalFields : Cardinality(g) <= MaxRuleActions},
                days \in DaysChoices} :
        rule_validate(r) = "Ok"}

(* an enabled rule with every action that goes by days, due after one day *)
EveryDaysActionRule == EvalRule("r2", "Enabled", EmptyFilter, EvalFields \ DateFields, 1)

EvalConfigInputs ==
    {[rules |-> <<r>>] : r \in EvalRuleInputs}
    \cup {[rules |-> <<EveryDaysActionRule, r>>] : r \in EvalRuleInputs}
    \cup {[rules |-> <<r, EveryDaysActionRule>>] : r \in EvalRuleInputs}

EvalRequestInputs ==
    [key : {LogsKey, OtherKey, BareKey},
     object_created_at : CreatedChoices,
     object_tags : {{}},
     is_delete_marker : BOOLEAN,
     is_current_version : BOOLEAN]

EvaluateInputs ==
    [fn : {"evaluate_object_lifecycle"},
     bucket : LcBuckets,
     config : EvalConfigInputs,
     request : EvalRequestInputs,
     now : NowChoices]

(* set_lifecycle_configuration(bucket, config) on an empty repository, then *)
(* evaluate_object_lifecycle(request) at the instant now                   *)
ApplyEvaluate ==
    /\ fdone = ""
    /\ fin.fn = "evaluate_object_lifecycle"
    /\ validate_configuration(fin.config)
    /\ fdone' = fin.fn
    /\ fout' = evaluate_object_lifecycle([b \in {fin.bucket} |-> fin.config],
                                         fin.request, fin.now)
    /\ UNCHANGED fin

InitEvaluate ==
    /\ InitVS /\ versioning_enabled /\ InitSched /\ InitSvc /\ InitLc /\ InitRules /\ InitVc
    /\ fin \in EvaluateInputs
    /\ fout = <<>>
    /\ fdone = ""

SpecEvaluate == InitEvaluate /\ [][ApplyEvaluate /\ UNCHANGED notFun]_vars

Evaluated == fdone = "evaluate_object_lifecycle"

(* the rules the evaluation went through: those stored for the bucket the  *)
(* key names                                                               *)
RulesRead ==
    IF extract_bucket_from_key(fin.request.key) = Some(fin.bucket)
    THEN fin.config.rules ELSE <<>>

ActionsOf(rule_id) ==
    SelectSeq(fout.actions_to_apply, LAMBDA a : a.rule_id = rule_id)

ExpirationsByDaysOf(rule_id) ==
    SelectSeq(fout.actions_to_apply,
              LAMBDA a : a.rule_id = rule_id /\ a.action = "Expiration" /\ IsSome(a.days))

(* an enabled rule with expiration_days whose filter accepts the object *)
MatchingExpireByDays(rule) ==
    /\ rule.status = "Enabled"
    /\ IsSome(rule.expiration_days)
    /\ IsSome(rule.filter.prefix) => starts_with(fin.request.key, rule.filter.prefix[1])

(* C14 as stated: expire-by-days triggers exactly when                     *)
(* now - created_at >= days * 24h.                                         *)
C14_ExpireByDaysExactly ==
    Evaluated =>
        \A i \in 1..Len(RulesRead) :
            MatchingExpireByDays(RulesRead[i]) =>
                (Len(ExpirationsByDaysOf(RulesRead[i].id)) = 1
                    <=> fin.now - fin.request.object_created_at
                            >= RulesRead[i].expiration_days[1] * 24 * 3600)

(* C14, amended: expire-by-days triggers exactly when the age of the       *)
(* object, now - created_at taken as zero for an object created after now, *)
(* is at least days * 24h, and then yields one Expiration action of the    *)
(* rule and otherwise none; with expiration_days = 30, an object created   *)
(* 31 days before now yields exactly one and one created 29 days before    *)
(* now yields none.                                                        *)
C14_ExpireByDaysOfClampedAge ==
    Evaluated =>
        \A i \in 1..Len(RulesRead) :
            MatchingExpireByDays(RulesRead[i]) =>
                LET days == RulesRead[i].expiration_days[1]
                    elapsed == fin.now - fin.request.object_created_at
                    age == IF elapsed < 0 THEN 0 ELSE elapsed
                    expirations == Len(ExpirationsByDaysOf(RulesRead[i].id))
                IN  /\ age >= days * 24 * 3600 => expirations = 1
                    /\ age < days * 24 * 3600 => expirations = 0
                    /\ (days = 30 /\ elapsed = 31 * 24 * 3600) => expirations = 1
                    /\ (days = 30 /\ elapsed = 29 * 24 * 3600) => expirations = 0

(* an object created 31 days before now met a matching enabled rule with   *)
(* expiration_days = 30 and got its one Expiration action                  *)
C14_ThirtyOneDaysOld ==
    /\ Evaluated
    /\ \E i \in 1..Len(RulesRead) :
          /\ MatchingExpireByDays(RulesRead[i])
          /\ RulesRead[i].expiration_days = Some(30)
          /\ fin.now - fin.request.object_created_at = 31 * 24 * 3600
          /\ Len(ExpirationsByDaysOf(RulesRead[i].id)) = 1

(* an enabled rule whose filter accepts the object of the request *)
EnabledAndMatching(rule) ==
    /\ rule.status = "Enabled"
    /\ IsSome(rule.filter.prefix) => starts_with(fin.request.key, rule.filter.prefix[1])

TransitionsOf(rule_id) ==
    SelectSeq(fout.actions_to_apply,
              LAMBDA a : a.rule_id = rule_id /\ a.action = "Transition")

(* C15: an enabled matching rule that carries a transition date d and a    *)
(* target storage class yields a Transition action whenever now >= d.      *)
C15_TransitionByDate ==
    Evaluated =>
        \A i \in 1..Len(RulesRead) :
            (/\ EnabledAndMatching(RulesRead[i])
             /\ IsSome(RulesRead[i].transition_date)
             /\ IsSome(RulesRead[i].transition_storage_class)
             /\ fin.now >= RulesRead[i].transition_date[1])
                => Len(TransitionsOf(RulesRead[i].id)) >= 1

(* the place of a rule in the list the evaluation went through *)
RuleIndex(rule_id) == CHOOSE i \in 1..Len(RulesRead) : RulesRead[i].id = rule_id

(* the place of an action in the fixed order within one rule *)
ActionRank(a) ==
    CASE a.action = "Expiration" /\ IsSome(a.days) -> 1
      [] a.action = "Expiration" -> 2
      [] a.action = "Transition" -> 3
      [] a.action = "ExpireDeleteMarker" -> 4
      [] a.action = "NonCurrentVersionExpiration" -> 5
      [] a.action = "NonCurrentVersionTransition" -> 6
      [] a.action = "AbortIncompleteMultipartUpload" -> 7

(* C16: the output is ordered by the order of the rule list and, within    *)
(* one rule, by the fixed action order: expire-by-days, expire-by-date,    *)
(* transition, delete-marker expiration, non-current-version expiration,   *)
(* non-current-version transition, abort-incomplete-multipart.             *)
C16_OutputOrder ==
    Evaluated =>
        \A p, q \in 1..Len(fout.actions_to_apply) :
            p < q =>
                LET a == fout.actions_to_apply[p]
                    b == fout.actions_to_apply[q]
                IN  /\ \E i \in 1..Len(RulesRead) : RulesRead[i].id = a.rule_id
                    /\ \E i \in 1..Len(RulesRead) : RulesRead[i].id = b.rule_id
                    /\ RuleIndex(a.rule_id) <= RuleIndex(b.rule_id)
                    /\ a.rule_id = b.rule_id => ActionRank(a) < ActionRank(b)

(* two rules contributed, the first of them more than one action *)
C16_TwoRulesSeveralActions ==
    /\ Evaluated
    /\ Len(RulesRead) = 2
    /\ Len(ActionsOf(RulesRead[1].id)) >= 2
    /\ Len(ActionsOf(RulesRead[2].id)) >= 2

(* C17: a rule whose status is Disabled contributes no action, even for an *)
(* object its filter accepts and that is past its expiration threshold.    *)
C17_DisabledRuleInert ==
    Evaluated =>
        \A i \in 1..Len(RulesRead) :
            RulesRead[i].status = "Disabled" => Len(ActionsOf(RulesRead[i].id)) = 0

(* a Disabled rule whose filter accepts the object and whose               *)
(* expiration_days the object has outlived was gone through                *)
C17_DisabledRuleOtherwiseDue ==
    /\ Evaluated
    /\ \E i \in 1..Len(RulesRead) :
          /\ RulesRead[i].status = "Disabled"
          /\ IsSome(RulesRead[i].filter.prefix)
          /\ starts_with(fin.request.key, RulesRead[i].filter.prefix[1])
          /\ RulesRead[i].expiration_days = Some(30)
          /\ fin.now - fin.request.object_created_at >= 31 * 24 * 3600
          /\ Len(ActionsOf(RulesRead[i].id)) = 0

---------------------------------------------------------------------------
(* LifecycleServiceImpl over InMemoryLifecycleRepository and an object     *)
(* store.  set, delete and evaluate are single steps; a call of            *)
(* process_bucket_lifecycle is one step for each of its awaits, and other  *)
(* calls may run between them.                                             *)

MaxLcClock == 2
MaxLcCalls == 2
MaxLcFailures == 1
MaxRuleCalls == 2

ExpireOldLogs == [DefaultRule EXCEPT !.id = "expire-old-logs", !.status = "Enabled",
                                     !.filter = [EmptyFilter EXCEPT !.prefix = Some(LogsPrefix)],
                                     !.expiration_days = Some(1)]

ToGlacier == [DefaultRule EXCEPT !.id = "to-glacier", !.status = "Enabled",
                                 !.transition_days = Some(1),
                                 !.transition_storage_class = Some("GLACIER")]

DaysAndDate == [DefaultRule EXCEPT !.id = "days-and-date", !.status = "Enabled",
                                   !.expiration_days = Some(1),
                                   !.expiration_date = Some(SecondsPerDay)]

LcConfigChoices == {[rules |-> <<ExpireOldLogs>>],
                    [rules |-> <<ToGlacier, ExpireOldLogs>>],
                    [rules |-> <<DaysAndDate>>]}

RuleIdChoices == {"expire-old-logs", "to-glacier", "no-such-rule"}

LcRequestChoices ==
    [key : {LogsKey, BucketedLogsKey, BareKey},
     object_created_at : {0},
     object_tags : {{}},
     is_delete_marker : {FALSE},
     is_current_version : {TRUE}]

LcCall(name) ==
    /\ lcalls < MaxLcCalls
    /\ lcalls' = lcalls + 1

LcResult(name, ok, err) == [LcNoRes EXCEPT !.name = name, !.ok = ok, !.err = err]

(* get_lifecycle_configuration: configurations.get(bucket).cloned() *)
get_lifecycle_configuration(repo, bucket) ==
    IF bucket \in DOMAIN repo THEN Some(repo[bucket]) ELSE None

(* the variant keeps what is stored for the bucket *)
save_configuration_if_absent(repo, bucket, config) ==
    IF config_validate(config) = "Ok" /\ bucket \notin DOMAIN repo
    THEN MapPut(repo, bucket, config) ELSE repo

(* InMemoryLifecycleRepository::save_configuration *)
save_configuration(repo, bucket, config) ==
    IF config_validate(config) = "Ok" THEN MapPut(repo, bucket, config) ELSE repo

(* set_lifecycle_configuration: the variant saves before it validates *)
SetLifecycleConfigurationSaveFirst(bucket, config) ==
    /\ LcCall("set_lifecycle_configuration")
    /\ configurations' = MapPut(configurations, bucket, config)
    /\ lres' = [LcResult("set_lifecycle_configuration", validate_configuration(config),
                         IF validate_configuration(config) THEN "" ELSE "ValidationFailed")
                    EXCEPT !.bucket = bucket, !.config = config,
                           !.before = get_lifecycle_configuration(configurations, bucket)]
    /\ UNCHANGED <<processing_status, lc_store, lnow, lpc, lrun, lfailures>>

SetLifecycleConfiguration(bucket, config) ==
    /\ LcCall("set_lifecycle_configuration")
    /\ IF validate_configuration(config)
       THEN /\ configurations' = save_configuration(configurations, bucket, config)
            /\ lres' = [LcResult("set_lifecycle_configuration", TRUE, "")
                            EXCEPT !.bucket = bucket, !.config = config,
                                   !.before = get_lifecycle_configuration(configurations, bucket)]
       ELSE /\ configurations' = configurations
            /\ lres' = [LcResult("set_lifecycle_configuration", FALSE, "ValidationFailed")
                            EXCEPT !.bucket = bucket, !.config = config,
                                   !.before = get_lifecycle_configuration(configurations, bucket)]
    /\ UNCHANGED <<processing_status, lc_store, lnow, lpc, lrun, lfailures>>

(* delete_lifecycle_configuration *)
DeleteLifecycleConfiguration(bucket) ==
    /\ LcCall("delete_lifecycle_configuration")
    /\ configurations' = [b \in (DOMAIN configurations) \ {bucket} |-> configurations[b]]
    /\ lres' = [LcResult("delete_lifecycle_configuration", TRUE, "") EXCEPT !.bucket = bucket]
    /\ UNCHANGED <<processing_status, lc_store, lnow, lpc, lrun, lfailures>>

(* config.rules.retain(|r| r.id != rule_id) *)
RetainOtherRules(rules, rule_id) == SelectSeq(rules, LAMBDA r : r.id # rule_id)

(* remove_rule: the variant returns Ok and leaves a configuration stored   *)
(* when the rule to remove is its last one                                 *)
RemoveRuleKeepLast(bucket, rule_id) ==
    LET found == get_lifecycle_configuration(configurations, bucket)
        rest == [rules |-> RetainOtherRules(found[1].rules, rule_id)]
        result(ok, err) == [LcResult("remove_rule", ok, err)
                                EXCEPT !.bucket = bucket, !.rule_id = rule_id,
                                       !.before = found]
    IN  /\ LcCall("remove_rule")
        /\ IF IsNone(found)
           THEN /\ configurations' = configurations
                /\ lres' = result(TRUE, "")
           ELSE IF Len(rest.rules) = Len(found[1].rules)
           THEN /\ configurations' = configurations
                /\ lres' = result(FALSE, "RuleNotFound")
           ELSE IF rest.rules = <<>>
           THEN /\ configurations' = configurations
                /\ lres' = result(TRUE, "")
           ELSE IF validate_configuration(rest)
           THEN /\ configurations' = save_configuration(configurations, bucket, rest)
                /\ lres' = result(TRUE, "")
           ELSE /\ configurations' = configurations
                /\ lres' = result(FALSE, "ValidationFailed")
        /\ UNCHANGED <<processing_status, lc_store, lnow, lpc, lrun, lfailures>>

(* remove_rule: no configuration is Ok; no such rule is RuleNotFound; an   *)
(* emptied configuration is deleted, any other is set again                *)
RemoveRule(bucket, rule_id) ==
    LET found == get_lifecycle_configuration(configurations, bucket)
        rest == [rules |-> RetainOtherRules(found[1].rules, rule_id)]
        result(ok, err) == [LcResult("remove_rule", ok, err)
                                EXCEPT !.bucket = bucket, !.rule_id = rule_id,
                                       !.before = found]
    IN  /\ LcCall("remove_rule")
        /\ IF IsNone(found)
           THEN /\ configurations' = configurations
                /\ lres' = result(TRUE, "")
           ELSE IF Len(rest.rules) = Len(found[1].rules)
           THEN /\ configurations' = configurations
                /\ lres' = result(FALSE, "RuleNotFound")
           ELSE IF rest.rules = <<>>
           THEN /\ configurations' = [b \in (DOMAIN configurations) \ {bucket}
                                         |-> configurations[b]]
                /\ lres' = result(TRUE, "")
           ELSE IF validate_configuration(rest)
           THEN /\ configurations' = save_configuration(configurations, bucket, rest)
                /\ lres' = result(TRUE, "")
           ELSE /\ configurations' = configurations
                /\ lres' = result(FALSE, "ValidationFailed")
        /\ UNCHANGED <<processing_status, lc_store, lnow, lpc, lrun, lfailures>>

(* evaluate_object_lifecycle, called from outside: the variant also drops  *)
(* the object when an expiration is due                                    *)
EvaluateObjectLifecycleAndExpire(request) ==
    /\ LcCall("evaluate_object_lifecycle")
    /\ LET evaluation == evaluate_object_lifecycle(configurations, request, lnow)
       IN  /\ lres' = [LcResult("evaluate_object_lifecycle", evaluation.ok, evaluation.err)
                           EXCEPT !.key = request.key, !.at = lnow,
                                  !.actions_to_apply = evaluation.actions_to_apply]
           /\ lc_store' = IF evaluation.actions_to_apply # <<>>
                          THEN [k \in (DOMAIN lc_store) \ {request.key} |-> lc_store[k]]
                          ELSE lc_store
    /\ UNCHANGED <<configurations, processing_status, lnow, lpc, lrun, lfailures>>

EvaluateObjectLifecycle(request) ==
    /\ LcCall("evaluate_object_lifecycle")
    /\ LET evaluation == evaluate_object_lifecycle(configurations, request, lnow)
       IN  lres' = [LcResult("evaluate_object_lifecycle", evaluation.ok, evaluation.err)
                        EXCEPT !.key = request.key, !.at = lnow,
                               !.actions_to_apply = evaluation.actions_to_apply]
    /\ UNCHANGED <<configurations, processing_status, lc_store, lnow, lpc, lrun, lfailures>>

(* the system clock moves on by a day *)
LcTick ==
    /\ lnow < MaxLcClock * SecondsPerDay
    /\ lnow' = lnow + SecondsPerDay
    /\ UNCHANGED <<configurations, processing_status, lc_store, lpc, lrun, lres, lcalls,
                   lfailures>>

ProcessingStatus(is_running, last_run_results) ==
    [is_running |-> is_running, last_run_results |-> last_run_results]

(* get_processing_status: the stored entry, or one with is_running false *)
get_processing_status(bucket) ==
    IF bucket \in DOMAIN processing_status
    THEN processing_status[bucket]
    ELSE ProcessingStatus(FALSE, None)

(* process_bucket_lifecycle, up to the await of list_objects *)
ProcessStart(bucket) ==
    /\ lpc = "idle"
    /\ LcCall("process_bucket_lifecycle")
    /\ processing_status' = MapPut(processing_status, bucket, ProcessingStatus(TRUE, None))
    /\ lrun' = [LcNoRun EXCEPT !.bucket = bucket]
    /\ lpc' = "list"
    /\ UNCHANGED <<configurations, lc_store, lnow, lres, lfailures>>

(* the keys list_objects(Some(bucket)) yields: the prefix goes by segments *)
KeysUnder(bucket) ==
    {k \in DOMAIN lc_store : starts_with(k, <<bucket>>) /\ (Len(k) = 1 \/ k[2] = "/")}

ProcessResults == [lrun EXCEPT !.objects = <<>>, !.idx = 0, !.pending = <<>>,
                               !.outcomes = <<>>]

(* list_objects returned an error: the variant returns without recording it *)
ProcessListFailsSilently ==
    /\ lpc = "list"
    /\ lfailures < MaxLcFailures
    /\ lfailures' = lfailures + 1
    /\ lres' = [LcResult("process_bucket_lifecycle", TRUE, "")
                    EXCEPT !.bucket = lrun.bucket,
                           !.results = [LcNoRun EXCEPT !.bucket = lrun.bucket]]
    /\ lpc' = "idle"
    /\ lrun' = LcNoRun
    /\ UNCHANGED <<configurations, processing_status, lc_store, lnow, lcalls>>

(* list_objects returned an error: one ProcessingError, nothing processed, *)
(* and the status entry is left as it is                                   *)
ProcessListFails ==
    /\ lpc = "list"
    /\ lfailures < MaxLcFailures
    /\ lfailures' = lfailures + 1
    /\ lres' = [LcResult("process_bucket_lifecycle", TRUE, "")
                    EXCEPT !.bucket = lrun.bucket,
                           !.results = [LcNoRun EXCEPT
                                           !.bucket = lrun.bucket,
                                           !.errors = <<[object_key |-> <<"unknown">>,
                                                         rule_id |-> "system"]>>]]
    /\ lpc' = "idle"
    /\ lrun' = LcNoRun
    /\ UNCHANGED <<configurations, processing_status, lc_store, lnow, lcalls>>

ProcessList ==
    /\ lpc = "list"
    /\ \E order \in IterationOrders(KeysUnder(lrun.bucket)) :
          lrun' = [lrun EXCEPT !.objects = [i \in DOMAIN order |->
                                               [key |-> order[i],
                                                last_modified |-> lc_store[order[i]]]],
                               !.idx = 1]
    /\ lpc' = "loop"
    /\ UNCHANGED <<configurations, processing_status, lc_store, lnow, lres, lcalls, lfailures>>

ObjectRequest(object_info) ==
    [key |-> object_info.key, object_created_at |-> object_info.last_modified,
     object_tags |-> {}, is_delete_marker |-> FALSE, is_current_version |-> TRUE]

(* one turn of the loop up to the first action: the variant leaves the     *)
(* loop when the evaluation fails                                          *)
EvaluatedObjectStopAtError(evaluation) ==
    LET object_info == lrun.objects[lrun.idx]
        counted == [lrun EXCEPT !.objects_processed = @ + 1,
                                !.outcomes = Append(@, [key |-> object_info.key,
                                                        evaluated |-> evaluation.ok,
                                                        applied |-> <<>>])]
    IN  IF ~evaluation.ok
        THEN [counted EXCEPT !.errors = Append(@, [object_key |-> object_info.key,
                                                   rule_id |-> "evaluation"]),
                             !.idx = Len(lrun.objects) + 1]
        ELSE IF evaluation.actions_to_apply = <<>>
        THEN [counted EXCEPT !.idx = @ + 1]
        ELSE [counted EXCEPT !.objects_affected = @ + 1,
                             !.pending = evaluation.actions_to_apply]

EvaluatedObject(evaluation) ==
    LET object_info == lrun.objects[lrun.idx]
        counted == [lrun EXCEPT !.objects_processed = @ + 1,
                                !.outcomes = Append(@, [key |-> object_info.key,
                                                        evaluated |-> evaluation.ok,
                                                        applied |-> <<>>])]
    IN  IF ~evaluation.ok
        THEN [counted EXCEPT !.errors = Append(@, [object_key |-> object_info.key,
                                                   rule_id |-> "evaluation"]),
                             !.idx = @ + 1]
        ELSE IF evaluation.actions_to_apply = <<>>
        THEN [counted EXCEPT !.idx = @ + 1]
        ELSE [counted EXCEPT !.objects_affected = @ + 1,
                             !.pending = evaluation.actions_to_apply]

ProcessObject ==
    /\ lpc = "loop"
    /\ lrun.idx <= Len(lrun.objects)
    /\ lrun.pending = <<>>
    /\ lrun' = EvaluatedObject(evaluate_object_lifecycle(
                                   configurations, ObjectRequest(lrun.objects[lrun.idx]), lnow))
    /\ UNCHANGED <<configurations, processing_status, lc_store, lnow, lpc, lres, lcalls,
                   lfailures>>

(* the repository fails the read of the configuration: RepositoryError *)
ProcessObjectRepositoryFails ==
    /\ lpc = "loop"
    /\ lrun.idx <= Len(lrun.objects)
    /\ lrun.pending = <<>>
    /\ lfailures < MaxLcFailures
    /\ lfailures' = lfailures + 1
    /\ lrun' = EvaluatedObject([ok |-> FALSE, err |-> "RepositoryError",
                                actions_to_apply |-> <<>>])
    /\ UNCHANGED <<configurations, processing_status, lc_store, lnow, lpc, lres, lcalls>>

(* apply_lifecycle_actions, one action: ok tells how the action ended *)
ActionDone(ok) ==
    LET object_info == lrun.objects[lrun.idx]
        action == Head(lrun.pending)
        last == Len(lrun.outcomes)
        noted == [lrun EXCEPT !.pending = Tail(@),
                              !.outcomes[last].applied = Append(@, ok),
                              !.idx = IF Len(lrun.pending) = 1 THEN @ + 1 ELSE @]
    IN  IF ok
        THEN [noted EXCEPT !.actions_applied = @ + 1]
        ELSE [noted EXCEPT !.errors = Append(@, [object_key |-> object_info.key,
                                                 rule_id |-> action.rule_id])]

(* apply_expiration_action: object_store.delete_object(key) *)
ApplyExpiration ==
    /\ lpc = "loop"
    /\ lrun.pending # <<>>
    /\ Head(lrun.pending).action = "Expiration"
    /\ lc_store' = [k \in (DOMAIN lc_store) \ {lrun.objects[lrun.idx].key} |-> lc_store[k]]
    /\ lrun' = ActionDone(TRUE)
    /\ UNCHANGED <<configurations, processing_status, lnow, lpc, lres, lcalls, lfailures>>

ApplyExpirationFails ==
    /\ lpc = "loop"
    /\ lrun.pending # <<>>
    /\ Head(lrun.pending).action = "Expiration"
    /\ lfailures < MaxLcFailures
    /\ lfailures' = lfailures + 1
    /\ lrun' = ActionDone(FALSE)
    /\ UNCHANGED <<configurations, processing_status, lc_store, lnow, lpc, lres, lcalls>>

(* apply_transition_action returns Err ("not yet implemented"), the other  *)
(* four return Ok, none of them touches the store                          *)
ApplyOther ==
    /\ lpc = "loop"
    /\ lrun.pending # <<>>
    /\ Head(lrun.pending).action # "Expiration"
    /\ lrun' = ActionDone(Head(lrun.pending).action # "Transition")
    /\ UNCHANGED <<configurations, processing_status, lc_store, lnow, lpc, lres, lcalls,
                   lfailures>>

(* after the loop: the status entry gets the results *)
ProcessFinish ==
    /\ lpc = "loop"
    /\ lrun.idx > Len(lrun.objects)
    /\ processing_status' = MapPut(processing_status, lrun.bucket,
                                   ProcessingStatus(FALSE, Some(ProcessResults)))
    /\ lres' = [LcResult("process_bucket_lifecycle", TRUE, "")
                    EXCEPT !.bucket = lrun.bucket, !.listed = lrun.objects,
                           !.results = [lrun EXCEPT !.objects = <<>>, !.idx = 0]]
    /\ lpc' = "idle"
    /\ lrun' = LcNoRun
    /\ UNCHANGED <<configurations, lc_store, lnow, lcalls, lfailures>>

LcConfigCall ==
    \/ \E b \in LcBuckets, c \in LcConfigChoices : SetLifecycleConfiguration(b, c)
    \/ \E b \in LcBuckets : DeleteLifecycleConfiguration(b)
    \/ \E b \in LcBuckets, id \in RuleIdChoices : RemoveRule(b, id)

LcEvaluateCall == \E request \in LcRequestChoices : EvaluateObjectLifecycle(request)

LcProcessStep ==
    \/ \E b \in LcBuckets : ProcessStart(b)
    \/ ProcessListFails
    \/ ProcessList
    \/ ProcessObject
    \/ ProcessObjectRepositoryFails
    \/ ApplyExpiration
    \/ ApplyExpirationFails
    \/ ApplyOther
    \/ ProcessFinish

NextLc ==
    \/ LcConfigCall
    \/ LcEvaluateCall
    \/ LcTick
    \/ LcProcessStep

SpecLc == Init /\ [][NextLc /\ UNCHANGED notLc]_vars

---------------------------------------------------------------------------
(* Rule management: add_rule, enable_rule and disable_rule of the service  *)
(* read the configuration, change their copy and set it again; update_rule *)
(* of the repository runs under the write lock of the repository.          *)

(* expire-old-logs without any action *)
Inert == [DefaultRule EXCEPT !.id = "expire-old-logs"]

RuleChoices == {ExpireOldLogs, ToGlacier, Inert}

RCall(t, o, at) ==
    /\ rpc[t] = "idle"
    /\ rcalls < MaxRuleCalls
    /\ rcalls' = rcalls + 1
    /\ rpc' = [rpc EXCEPT ![t] = at]
    /\ rop' = [rop EXCEPT ![t] = o]
    /\ rres' = [rres EXCEPT ![t] = RNoRes]

RReturn(t, ok, err, before) ==
    /\ rpc' = [rpc EXCEPT ![t] = "idle"]
    /\ rop' = [rop EXCEPT ![t] = RIdle]
    /\ rres' = [rres EXCEPT ![t] = [name |-> rop[t].name, ok |-> ok, err |-> err,
                                    bucket |-> rop[t].bucket, rule |-> rop[t].rule,
                                    rule_id |-> rop[t].rule_id, before |-> before]]
    /\ UNCHANGED rcalls

LcRest == <<processing_status, lc_store, lnow, lpc, lrun, lres, lcalls, lfailures>>

HasRule(rules, id) == \E i \in 1..Len(rules) : rules[i].id = id

(* set_lifecycle_configuration, as the rule calls end with it *)
RuleSet(t, config) ==
    LET stored == get_lifecycle_configuration(configurations, rop[t].bucket)
    IN  IF validate_configuration(config)
        THEN /\ configurations' = save_configuration(configurations, rop[t].bucket, config)
             /\ RReturn(t, TRUE, "", stored)
        ELSE /\ configurations' = configurations
             /\ RReturn(t, FALSE, "ValidationFailed", stored)

(* add_rule: self.get_lifecycle_configuration(bucket).await? *)
AddRuleGet(t, bucket, rule) ==
    /\ RCall(t, [RIdle EXCEPT !.name = "add_rule", !.bucket = bucket, !.rule = Some(rule),
                              !.rule_id = rule.id,
                              !.found = get_lifecycle_configuration(configurations, bucket)],
             "add_set")
    /\ UNCHANGED configurations
    /\ UNCHANGED LcRest

(* add_rule: the duplicate check, rule.validate(), push, set *)
AddRuleSet(t) ==
    /\ rpc[t] = "add_set"
    /\ LET config == IF IsSome(rop[t].found) THEN rop[t].found[1] ELSE [rules |-> <<>>]
           rule == rop[t].rule[1]
           stored == get_lifecycle_configuration(configurations, rop[t].bucket)
       IN  IF HasRule(config.rules, rule.id)
           THEN /\ RReturn(t, FALSE, "ValidationFailed", stored)
                /\ UNCHANGED configurations
           ELSE IF rule_validate(rule) # "Ok"
           THEN /\ RReturn(t, FALSE, "ValidationFailed", stored)
                /\ UNCHANGED configurations
           ELSE RuleSet(t, [rules |-> Append(config.rules, rule)])
    /\ UNCHANGED LcRest

(* update_rule_status: self.get_lifecycle_configuration(bucket).await? *)
UpdateRuleStatusGet(t, bucket, rule_id, new_status) ==
    /\ RCall(t, [RIdle EXCEPT !.name = IF new_status = "Enabled" THEN "enable_rule"
                                       ELSE "disable_rule",
                              !.bucket = bucket, !.rule_id = rule_id, !.status = new_status,
                              !.found = get_lifecycle_configuration(configurations, bucket)],
             "status_set")
    /\ UNCHANGED configurations
    /\ UNCHANGED LcRest

WithStatus(rules, rule_id, new_status) ==
    LET first == CHOOSE i \in 1..Len(rules) :
                     rules[i].id = rule_id /\ \A j \in 1..(i - 1) : rules[j].id # rule_id
    IN [rules EXCEPT ![first].status = new_status]

UpdateRuleStatusSet(t) ==
    /\ rpc[t] = "status_set"
    /\ LET stored == get_lifecycle_configuration(configurations, rop[t].bucket)
       IN  IF IsNone(rop[t].found)
           THEN /\ RReturn(t, FALSE, "ConfigurationNotFound", stored)
                /\ UNCHANGED configurations
           ELSE IF ~HasRule(rop[t].found[1].rules, rop[t].rule_id)
           THEN /\ RReturn(t, FALSE, "RuleNotFound", stored)
                /\ UNCHANGED configurations
           ELSE RuleSet(t, [rules |-> WithStatus(rop[t].found[1].rules, rop[t].rule_id,
                                                 rop[t].status)])
    /\ UNCHANGED LcRest

(* the first rule with the id of `rule` becomes `rule` *)
ReplaceRule(rules, rule) ==
    LET first == CHOOSE i \in 1..Len(rules) :
                     rules[i].id = rule.id /\ \A j \in 1..(i - 1) : rules[j].id # rule.id
    IN [rules EXCEPT ![first] = rule]

(* InMemoryLifecycleRepository::update_rule: the rule is replaced in the   *)
(* stored configuration (get_mut), which is validated afterwards           *)
UpdateRule(t, bucket, rule) ==
    LET stored == get_lifecycle_configuration(configurations, bucket)
        result(ok, err) == [name |-> "update_rule", ok |-> ok, err |-> err, bucket |-> bucket,
                            rule |-> Some(rule), rule_id |-> rule.id, before |-> stored]
    IN  /\ rpc[t] = "idle"
        /\ rcalls < MaxRuleCalls
        /\ rcalls' = rcalls + 1
        /\ UNCHANGED <<rpc, rop>>
        /\ IF IsNone(stored)
           THEN /\ rres' = [rres EXCEPT ![t] = result(FALSE, "ConfigurationNotFound")]
                /\ UNCHANGED configurations
           ELSE IF ~HasRule(stored[1].rules, rule.id)
           THEN /\ rres' = [rres EXCEPT ![t] = result(FALSE, "InvalidRule")]
                /\ UNCHANGED configurations
           ELSE LET changed == [rules |-> ReplaceRule(stored[1].rules, rule)]
                IN  /\ configurations' = MapPut(configurations, bucket, changed)
                    /\ rres' = [rres EXCEPT ![t] =
                                   IF config_validate(changed) = "Ok"
                                   THEN result(TRUE, "") ELSE result(FALSE, "InvalidRule")]
        /\ UNCHANGED LcRest

RuleBuckets == {"logs"}

RuleCall(t) ==
    \/ \E b \in RuleBuckets, r \in RuleChoices : AddRuleGet(t, b, r)
    \/ AddRuleSet(t)
    \/ \E b \in RuleBuckets, id \in RuleIdChoices, st \in {"Enabled", "Disabled"} :
          UpdateRuleStatusGet(t, b, id, st)
    \/ UpdateRuleStatusSet(t)
    \/ \E b \in RuleBuckets, r \in RuleChoices : UpdateRule(t, b, r)

RuleConfigCall ==
    \/ \E b \in RuleBuckets, c \in LcConfigChoices : SetLifecycleConfiguration(b, c)
    \/ \E b \in RuleBuckets : DeleteLifecycleConfiguration(b)
    \/ \E b \in RuleBuckets, id \in RuleIdChoices : RemoveRule(b, id)

(* Callers of the rule management calls, next to set, delete and           *)
(* remove_rule of the service                                              *)
NextRules ==
    \/ \E t \in Tasks : RuleCall(t)
    \/ RuleConfigCall /\ UNCHANGED ruleVars

SpecRules == Init /\ [][NextRules /\ UNCHANGED notRules]_vars

(* Callers of add_rule only *)
NextAddRule ==
    \E t \in Tasks :
        \/ \E b \in RuleBuckets, r \in RuleChoices : AddRuleGet(t, b, r)
        \/ AddRuleSet(t)

SpecAddRule == Init /\ [][NextAddRule /\ UNCHANGED notRules]_vars

(* the lifecycle manager and the lifecycle service side by side: each      *)
(* keeps its own configurations                                            *)
LcUntouched == lcalls = 0 /\ lnow = 0

NextSetConfig ==
    \/ LcUntouched /\ NextSched /\ UNCHANGED notSched
    \/ SchedUntouched /\ NextLc /\ UNCHANGED notLc

SpecSetConfig == Init /\ [][NextSetConfig]_vars

(* C12: a set_lifecycle_configuration / set_lifecycle_config call whose    *)
(* configuration fails validation returns a validation error and leaves    *)
(* the stored configurations, the one of its bucket included, unchanged.   *)
C12_InvalidNeverPersists ==
    [][/\ (/\ lcalls' = lcalls + 1
           /\ lpc' = lpc
           /\ lres'.name = "set_lifecycle_configuration"
           /\ ~validate_configuration(lres'.config))
          => (/\ ~lres'.ok
              /\ lres'.err = "ValidationFailed"
              /\ configurations' = configurations)
       /\ \A t \in Tasks :
             LET o == IF mpc[t] = "idle" THEN mop'[t] ELSE mop[t]
             IN  (/\ mpc'[t] # mpc[t]
                  /\ o.name = "set_lifecycle_config"
                  /\ ~validate(o.config))
                 => (/\ configs' = configs
                     /\ mpc'[t] \in {"cfg_validate", "idle"}
                     /\ mpc'[t] = "idle" =>
                           (~mres'[t].ok /\ mres'[t].err = "InvalidLifecycleConfig"))]_vars

(* a refused call on a bucket that had a configuration stored, which is    *)
(* still there                                                             *)
C12_RefusedOverStoredConfiguration ==
    /\ lres.name = "set_lifecycle_configuration"
    /\ ~lres.ok
    /\ lres.bucket \in DOMAIN configurations
    /\ configurations[lres.bucket] # lres.config

(* C18: a call of evaluate_object_lifecycle, from outside or from the loop *)
(* of process_bucket_lifecycle, leaves the stored configurations, the      *)
(* contents of the object store, the object metadata and the processing    *)
(* status of every bucket as they were.                                    *)
C18_EvaluationMutatesNothing ==
    [][(\/ (lcalls' = lcalls + 1 /\ lpc' = lpc /\ lres'.name = "evaluate_object_lifecycle")
        \/ lrun'.objects_processed = lrun.objects_processed + 1)
       => (/\ configurations' = configurations
           /\ lc_store' = lc_store
           /\ processing_status' = processing_status
           /\ objects' = objects
           /\ latest_versions' = latest_versions)]_vars

(* an evaluation that found actions due for an object the store holds *)
C18_EvaluatedStoredObjectDue ==
    /\ lres.name = "evaluate_object_lifecycle"
    /\ lres.actions_to_apply # <<>>
    /\ lres.key \in DOMAIN lc_store

PassFinished ==
    /\ lres.name = "process_bucket_lifecycle"
    /\ \A i \in 1..Len(lres.results.errors) : lres.results.errors[i].rule_id # "system"

(* how many failures the pass met on one object: its evaluation, or each   *)
(* of its actions that returned Err                                        *)
FailuresOn(outcome) ==
    IF ~outcome.evaluated THEN 1
    ELSE Cardinality({j \in 1..Len(outcome.applied) : ~outcome.applied[j]})

ErrorsFor(key) ==
    Cardinality({j \in 1..Len(lres.results.errors) :
                     lres.results.errors[j].object_key = key})

(* C20: when process_bucket_lifecycle lists n objects, every one of them   *)
(* is processed whatever fails on the others, objects_processed is n, and  *)
(* the errors hold exactly one ProcessingError for each failing evaluation *)
(* and each failing action, under the key of its object.                   *)
C20_FailureIsolation ==
    PassFinished =>
        LET n == Len(lres.listed)
            outcomes == lres.results.outcomes
        IN  /\ lres.results.objects_processed = n
            /\ Len(outcomes) = n
            /\ \A i \in 1..n :
                  /\ outcomes[i].key = lres.listed[i].key
                  /\ ErrorsFor(lres.listed[i].key) = FailuresOn(outcomes[i])
            /\ \A j \in 1..Len(lres.results.errors) :
                  \E i \in 1..n : lres.listed[i].key = lres.results.errors[j].object_key

(* three objects listed, the evaluation of the second failed, the first    *)
(* and the third were evaluated                                            *)
C20_SecondOfThreeFailed ==
    /\ PassFinished
    /\ Len(lres.listed) = 3
    /\ Len(lres.results.outcomes) = 3
    /\ lres.results.outcomes[1].evaluated
    /\ ~lres.results.outcomes[2].evaluated
    /\ lres.results.outcomes[3].evaluated
    /\ Len(lres.results.outcomes[3].applied) >= 1

(* C21: when the listing of the bucket fails, process_bucket_lifecycle     *)
(* returns at once: no object is evaluated, the store and the              *)
(* configurations are as they were, objects_processed is 0 and the result  *)
(* holds exactly one processing error.                                     *)
C21_ListingFailureAbortsPass ==
    [][(lpc = "list" /\ lpc' = "idle")
       => (/\ lres'.name = "process_bucket_lifecycle"
           /\ lres'.bucket = lrun.bucket
           /\ lres'.results.objects_processed = 0
           /\ lres'.results.objects_affected = 0
           /\ lres'.results.actions_applied = 0
           /\ lres'.results.outcomes = <<>>
           /\ Len(lres'.results.errors) = 1
           /\ lc_store' = lc_store
           /\ configurations' = configurations)]_vars

(* a pass over a bucket that holds objects, with a rule that is due for    *)
(* them, returned from a failed listing                                    *)
C21_ListingFailedOverObjects ==
    /\ lres.name = "process_bucket_lifecycle"
    /\ lres.listed = <<>>
    /\ lres.results.objects_processed = 0
    /\ KeysUnder(lres.bucket) # {}
    /\ lres.bucket \in DOMAIN configurations
    /\ lnow >= SecondsPerDay

(* C22: stop() only clears the running flag, and a pass in flight is not   *)
(* aborted: whatever the flag, a worker in its pass takes the buckets of   *)
(* its snapshot one at a time and goes to sleep only when none is left.    *)
C22_StopIsCooperative ==
    [][/\ (mcalls' = mcalls + 1 /\ mpc' = mpc)
          => (/\ \E t \in Tasks : mop'[t].name = "stop"
              /\ running' = FALSE
              /\ configs' = configs
              /\ wpc' = wpc
              /\ wsnap' = wsnap
              /\ cfgLockW' = cfgLockW
              /\ cfgLockR' = cfgLockR)
       /\ \A w \in Workers :
             wpc[w] = "apply" =>
                 \/ wpc'[w] = "apply" /\ wsnap'[w] = wsnap[w]
                 \/ /\ wpc'[w] = "apply"
                    /\ \E b \in DOMAIN wsnap[w] :
                          wsnap'[w] = [x \in (DOMAIN wsnap[w]) \ {b} |-> wsnap[w][x]]
                 \/ wpc'[w] = "sleep" /\ DOMAIN wsnap[w] = {} /\ wsnap'[w] = wsnap[w]]_vars

(* the flag is cleared while a worker is in its pass with a bucket of its  *)
(* snapshot still to come                                                  *)
C22_StoppedDuringPass ==
    \E w \in Workers :
        /\ wpc[w] = "apply"
        /\ ~running
        /\ DOMAIN wsnap[w] # {}

(* C23: the versioned location of (key, version id) is collision-free:     *)
(* distinct pairs of a key a client can write and a minted version id have *)
(* distinct locations, and no such location is the primary location of a   *)
(* key a client can write.                                                 *)
C23_VersionedPathCollisionFree ==
    LET Pairs == ClientKeys \X MintedVersions
    IN  /\ \A p \in Pairs, q \in Pairs :
               p # q => versioned_path(p[1], p[2]) # versioned_path(q[1], q[2])
        /\ \A p \in Pairs, k \in ClientKeys : versioned_path(p[1], p[2]) # k

PreHistory(r, k) == IF k \in DOMAIN r.pre.versions THEN r.pre.versions[k] ELSE <<>>

VersionedLocations(vs) ==
    UNION {{versioned_path(k, vs[k][i].version_id) : i \in 1..Len(vs[k])} : k \in DOMAIN vs}

SameObjectAt(s1, s2, p) ==
    /\ p \in DOMAIN s1 <=> p \in DOMAIN s2
    /\ p \in DOMAIN s1 => s1[p] = s2[p]

(* C25: a put(k, d) made with versioning disabled leaves list_versions(k)  *)
(* as it was and writes no versioned object: the object at the versioned   *)
(* location of every version of every history is what it was.              *)
C25_PlainPutWritesNoVersion ==
    \A t \in Tasks :
        (/\ pc[t] = "idle"
         /\ res[t].name = "put" /\ res[t].vid = <<>> /\ res[t].ok) =>
            /\ VsListVersions(res[t].key) = PreHistory(res[t], res[t].key)
            /\ \A p \in VersionedLocations(res[t].pre.versions) :
                   SameObjectAt(store, res[t].pre.store, p)

(* C26: after set_lifecycle_configuration(B, C) with a configuration C     *)
(* that validate_configuration accepts, the call returned Ok and           *)
(* get_lifecycle_configuration(B) is C, whatever was stored for B before.  *)
C26_SetThenGet ==
    (/\ lres.name = "set_lifecycle_configuration"
     /\ validate_configuration(lres.config)) =>
        /\ lres.ok
        /\ get_lifecycle_configuration(configurations, lres.bucket) = Some(lres.config)

(* a valid configuration set over another one stored for the bucket *)
C26_SetOverOtherConfiguration ==
    /\ lres.name = "set_lifecycle_configuration"
    /\ validate_configuration(lres.config)
    /\ IsSome(lres.before)
    /\ lres.before[1] # lres.config

(* C27: after a remove_rule(B, id) that removed the last rule of B,        *)
(* get_lifecycle_configuration(B) is none or has an empty rule list.       *)
C27_LastRuleRemoved ==
    (/\ lres.name = "remove_rule" /\ lres.ok
     /\ IsSome(lres.before)
     /\ RetainOtherRules(lres.before[1].rules, lres.rule_id) = <<>>) =>
        LET now == get_lifecycle_configuration(configurations, lres.bucket)
        IN  IsNone(now) \/ now[1].rules = <<>>

(* the only rule of a stored configuration was removed *)
C27_RemovedOnlyRule ==
    /\ lres.name = "remove_rule" /\ lres.ok
    /\ IsSome(lres.before)
    /\ Len(lres.before[1].rules) = 1
    /\ lres.before[1].rules[1].id = lres.rule_id

(* C28: a delete_version(k, v) that returned Ok removed exactly version v: *)
(* list_versions(k) is what it was without v, in the same order, and       *)
(* get_version of every other version of k returns what it returned before.*)
C28_DeleteVersionRemovesOnlyThat ==
    \A t \in Tasks :
        (/\ pc[t] = "idle"
         /\ res[t].name = "delete_version" /\ res[t].ok) =>
            LET k == res[t].key
                v == res[t].vid
                before == PreHistory(res[t], k)
            IN  /\ VsListVersions(k) = SelectSeq(before, LAMBDA e : e.version_id # v)
                /\ ~VsGetVersion(k, v).ok
                /\ \A i \in 1..Len(before) :
                       before[i].version_id # v =>
                           SameObjectAt(store, res[t].pre.store,
                                        versioned_path(k, before[i].version_id))

(* the older of two readable versions of a key was deleted *)
C28_DeletedOlderOfTwo ==
    \E t \in Tasks :
        /\ pc[t] = "idle"
        /\ res[t].name = "delete_version" /\ res[t].ok
        /\ Len(PreHistory(res[t], res[t].key)) = 2
        /\ PreHistory(res[t], res[t].key)[1].version_id = res[t].vid
        /\ VsGetVersion(res[t].key, PreHistory(res[t], res[t].key)[2].version_id).ok

(* C29: a restore_version(k, v) that returns Ok creates exactly one new    *)
(* version of k, with the bytes read from v, which becomes the latest:     *)
(* list_versions(k) has one more entry than before and the latest version  *)
(* of k holds those bytes.                                                 *)
C29_RestoreAddsOneVersion ==
    [][\A t \in Tasks, k \in BaseKeys :
          (/\ spc[t] = "cvo_save" /\ sop[t].name = "restore_version" /\ sop[t].key = k
           /\ spc'[t] = "idle" /\ sres'[t].ok) =>
              /\ Cardinality(list_object_versions(k)') = Cardinality(list_object_versions(k)) + 1
              /\ get_latest_version_id(k)' = Some(sop[t].vid)
              /\ sop[t].vid \notin DOMAIN StoredVersions(k)
              /\ adapter_versioned_path(k, sop[t].vid) \in DOMAIN objstore'
              /\ objstore'[adapter_versioned_path(k, sop[t].vid)] = sop[t].data]_vars

ReturnedOk(t, name, k) ==
    /\ spc[t] # "idle" /\ spc'[t] = "idle"
    /\ sres'[t].name = name /\ sres'[t].key = k /\ sres'[t].ok

(* C30: over the create_object and delete_object calls of one client,      *)
(* object_exists(k) is false at first, true once a create_object on k has  *)
(* returned Ok, false once a delete_object on k has returned Ok, and       *)
(* changed by nothing else.                                                *)
C30_ExistsFollowsLastCall ==
    /\ \A k \in BaseKeys : ~object_exists(k)
    /\ [][\A k \in BaseKeys :
             /\ ReturnedOk(1, "create_object", k) => object_exists(k)'
             /\ ReturnedOk(1, "delete_object", k) => ~object_exists(k)'
             /\ (~ReturnedOk(1, "create_object", k) /\ ~ReturnedOk(1, "delete_object", k))
                    => (object_exists(k)' <=> object_exists(k))]_vars

(* a key created again after its deletion *)
C30_CreatedAfterDelete ==
    \E k \in BaseKeys :
        /\ spc[1] = "idle"
        /\ sres[1].name = "create_object" /\ sres[1].key = k /\ sres[1].ok
        /\ \E v \in DOMAIN StoredVersions(k) : StoredVersions(k)[v].deleted
        /\ object_exists(k)

(* C31: an update_rule of the repository that returns an error leaves the  *)
(* stored configurations, the one of its bucket included, as they were.    *)
C31_FailedUpdateRuleChangesNothing ==
    [][(/\ rcalls' = rcalls + 1 /\ rpc' = rpc
        /\ \E t \in Tasks : /\ rres'[t] # rres[t]
                            /\ rres'[t].name = "update_rule"
                            /\ ~rres'[t].ok)
       => configurations' = configurations]_vars

(* C32: every stored configuration is valid: its rule ids are pairwise     *)
(* distinct and each of its rules has an action.                           *)
C32_StoredConfigurationsValid ==
    \A b \in DOMAIN configurations :
        LET rules == configurations[b].rules
        IN  /\ \A i \in 1..Len(rules), j \in 1..Len(rules) :
                   i # j => rules[i].id # rules[j].id
            /\ \A i \in 1..Len(rules) : has_any_action(rules[i])

(* C38: once two add_rule calls with distinct rule ids on one bucket have  *)
(* both returned Ok, the stored configuration of the bucket holds both     *)
(* rules.                                                                  *)
C38_NoLostAddRule ==
    (/\ rpc[1] = "idle" /\ rpc[2] = "idle"
     /\ rres[1].name = "add_rule" /\ rres[1].ok
     /\ rres[2].name = "add_rule" /\ rres[2].ok
     /\ rres[1].bucket = rres[2].bucket
     /\ rres[1].rule_id # rres[2].rule_id) =>
        LET stored == get_lifecycle_configuration(configurations, rres[1].bucket)
        IN  /\ IsSome(stored)
            /\ HasRule(stored[1].rules, rres[1].rule_id)
            /\ HasRule(stored[1].rules, rres[2].rule_id)

(* C33: whenever a key of the object repository has a version that is not  *)
(* deleted, the latest pointer of the key names the most recently created  *)
(* one of them, and a metadata read without version id resolves to it.     *)
C33_LatestIsNewestLive ==
    \A k \in DOMAIN objects :
        LET live == {v \in DOMAIN objects[k] : ~objects[k][v].deleted}
        IN  live # {} =>
                /\ k \in DOMAIN latest_versions
                /\ latest_versions[k] \in NewestLive(objects[k])
                /\ get_object_metadata(k, None)
                       = Some(objects[k][latest_versions[k]].metadata)

(* C34: a create_versioned_object on key k that returns Ok saved a version *)
(* id that was not in the history of k, and the history of k has exactly   *)
(* one entry more than before.                                             *)
C34_CreateMintsFreshId ==
    [][\A t \in Tasks, k \in BaseKeys :
          (/\ spc[t] = "cvo_save" /\ sop[t].name = "create_versioned_object"
           /\ sop[t].key = k
           /\ spc'[t] = "idle" /\ sres'[t].ok) =>
              /\ sop[t].vid \notin DOMAIN StoredVersions(k)
              /\ Cardinality(list_object_versions(k)')
                     = Cardinality(list_object_versions(k)) + 1]_vars

(* C35: once stop() has cleared the running flag while a worker is in its  *)
(* loop, that worker eventually exits.                                     *)
C35_StoppedWorkerExits ==
    \A w \in Workers :
        (~running /\ wpc[w] \notin {"none", "exited"}) ~> (wpc[w] = "exited")

(* C36: a delete(k) that returned Ok removed the object at the primary     *)
(* location of k and nothing else: every other object of the backing store *)
(* is what it was, so get_version returns for every version of k what it   *)
(* returned before, and the history map is what it was, so list_versions(k)*)
(* is unchanged and holds no new entry.                                    *)
C36_DeleteRemovesOnlyPrimary ==
    \A t \in Tasks :
        (/\ pc[t] = "idle"
         /\ res[t].name = "delete" /\ res[t].ok) =>
            LET k == res[t].key
                before == PreHistory(res[t], k)
            IN  /\ k \notin DOMAIN store
                /\ \A p \in (DOMAIN store \cup DOMAIN res[t].pre.store) \ {k} :
                       SameObjectAt(store, res[t].pre.store, p)
                /\ versions = res[t].pre.versions
                /\ VsListVersions(k) = before
                /\ \A i \in 1..Len(before) :
                       /\ versioned_path(k, before[i].version_id) \in DOMAIN res[t].pre.store
                          => VsGetVersion(k, before[i].version_id)
                                 = [ok |-> TRUE, err |-> "",
                                    bytes |-> res[t].pre.store[
                                                  versioned_path(k, before[i].version_id)]]
                       /\ versioned_path(k, before[i].version_id) \notin DOMAIN res[t].pre.store
                          => ~VsGetVersion(k, before[i].version_id).ok

(* a delete of a key that had a primary object, with versioning enabled, *)
(* and two versions whose bytes differ                                    *)
C36_DeletedKeyWithTwoVersions ==
    \E t \in Tasks :
        /\ pc[t] = "idle" /\ versioning_enabled
        /\ res[t].name = "delete" /\ res[t].ok
        /\ res[t].key \in DOMAIN res[t].pre.store
        /\ Len(PreHistory(res[t], res[t].key)) = 2
        /\ VsGetVersion(res[t].key, PreHistory(res[t], res[t].key)[1].version_id).ok
        /\ VsGetVersion(res[t].key, PreHistory(res[t], res[t].key)[2].version_id).ok
        /\ VsGetVersion(res[t].key, PreHistory(res[t], res[t].key)[1].version_id)
               # VsGetVersion(res[t].key, PreHistory(res[t], res[t].key)[2].version_id)

(* C37: get_processing_status(B).is_running is true only while a           *)
(* process_bucket_lifecycle(B) call is executing: it is false for every    *)
(* bucket once the call has returned, on whatever path.                    *)
C37_RunningOnlyWhileProcessing ==
    \A b \in LcBuckets :
        get_processing_status(b).is_running => (lpc # "idle" /\ lrun.bucket = b)

(* C39: of the create_object calls made on one key, none of which is ever  *)
(* deleted, at most one returns Ok, and once all calls have returned the   *)
(* bytes stored at the key are those of the call that returned Ok.         *)
C39_OneCreateWins ==
    \A t \in Tasks, u \in Tasks :
        (/\ sres[t].name = "create_object" /\ sres[t].ok
         /\ \A w \in Tasks : spc[w] = "idle"
         /\ t # u /\ sres[u].name = "create_object" /\ sres[u].key = sres[t].key) =>
            /\ ~sres[u].ok
            /\ objstore[sres[t].key] = sres[t].bytes

(* C40: right after disable_versioning(B) has returned Ok,                 *)
(* get_versioning_configuration(B) reports enabled = false, also for a     *)
(* bucket that was never configured.                                       *)
C40_DisabledReadsDisabled ==
    vcres.name = "disable_versioning" =>
        ~get_versioning_configuration(vcres.bucket).enabled

====
